---- MODULE Spec2Model ----
(***************************************************************************)
(* Transcript moderation core of ai-chaperone:                             *)
(*   KeywordMatcher   (transcript_moderation_optimized.py, lines 27-109)   *)
(*   TranscriptParser.parse_vtt (same file, lines 112-145)                 *)
(*   ModerationEngine._load_keywords (same file, lines 148-179)            *)
(*   ModerationEngine.process_transcript (same file, lines 181-255)        *)
(*   the report built by lambda_handler (lambda_handler.py, lines 107-209) *)
(* and the job pipeline around it: the entry point, the rules handler,     *)
(* the text and image polling servers, the stream handler and its          *)
(* call_webhook_with_retry.                                                *)
(*                                                                         *)
(* A Python str is a sequence of characters; a character is a string of    *)
(* length one, except U+2011 (NON-BREAKING HYPHEN), written "U+2011".      *)
(* Positions named start_pos / end_pos are the 0-based Python indexes of   *)
(* the source; the TLA+ sequence index of Python index p is p + 1.         *)
(***************************************************************************)
EXTENDS Integers, Sequences, FiniteSets, TLC

VARIABLES
    pc,               \* where the run is: "new", "built", "found", "reported", ...
    keyword_data,     \* argument of KeywordMatcher.__init__
    single_words,     \* KeywordMatcher.single_words
    phrases,          \* KeywordMatcher.phrases
    automaton,        \* KeywordMatcher.automaton (ahocorasick.Automaton)
    text,             \* argument of the last find_violations call
    found_violations, \* list returned by the last find_violations call
    seen_violations,  \* find_violations' local set of (keyword, start_pos)
    raised,           \* exception leaving the last call, "None" if it returned
    utterances,       \* utterances parsed from the transcript
    report,           \* the report dict, NoReport before / without one
    document,         \* the blocks of lines the transcript file holds
    content,          \* the text of the transcript file
    csv_file,         \* the keyword table: its header and its rows
    previous_violations, \* list returned by the call before the last one
    calls,            \* the find_violations calls in progress on one matcher
    job_item,         \* the job's item in the DynamoDB table, NoItem if none
    records,          \* the stream records the table has written, in order
    handled,          \* how many of them the stream handler has been given
    queues,           \* messages in the rules, text-LLM and image queues
    received,         \* how often each queue has handed its message out
    s3_results,       \* the result files in the output bucket
    text_server,      \* where the text server is in process_message
    webhook,          \* HTTP attempts made and 2xx responses received
    env,              \* which environment variables of the lambdas are set
    response,         \* what the last run of a lambda returned or raised
    event,            \* the Records of the event the rules handler is given
    moderated,        \* the job_ids whose transcript the rules handler moderated
    retry             \* a call of call_webhook_with_retry: its loop and result

vars == <<pc, keyword_data, single_words, phrases, automaton, text,
          found_violations, seen_violations, raised, utterances, report,
          document, content, csv_file, previous_violations, calls,
          job_item, records, handled, queues, received, s3_results, text_server,
          webhook, env, response, event, moderated, retry>>

\* the job pipeline around the moderation engine
pipeline == <<job_item, records, handled, queues, received, s3_results, text_server,
              webhook, env, response, event, moderated, retry>>

\* what a single caller of the matcher does not touch
rest == <<calls, pipeline>>

\* what the pipeline does not touch
engine == <<keyword_data, single_words, phrases, automaton, text,
            found_violations, seen_violations, raised, utterances, report,
            document, content, csv_file, previous_violations, calls>>

\* what the matcher and the report do not touch
files == <<document, content, csv_file, previous_violations, rest>>

----------------------------------------------------------------------------
(* Characters and the str methods the code uses                            *)

NBHYPHEN == "U+2011"

LowerSeq == <<"a","b","c","d","e","f","g","h","i","j","k","l","m",
              "n","o","p","q","r","s","t","u","v","w","x","y","z">>

UpperSeq == <<"A","B","C","D","E","F","G","H","I","J","K","L","M",
              "N","O","P","Q","R","S","T","U","V","W","X","Y","Z">>

LowerLetters == {LowerSeq[i] : i \in DOMAIN LowerSeq}

UpperLetters == {UpperSeq[i] : i \in DOMAIN UpperSeq}

Digits == {"0","1","2","3","4","5","6","7","8","9"}

Whitespace == {" ", "\t", "\n", "\r"}

\* str.lower() on one character
LowerChar(c) ==
    IF c \in UpperLetters
    THEN LowerSeq[CHOOSE i \in DOMAIN UpperSeq : UpperSeq[i] = c]
    ELSE c

\* str.lower()
Lower(s) == [i \in 1..Len(s) |-> LowerChar(s[i])]

\* str.replace("\u2011", "-")
ReplaceNBHyphen(s) == [i \in 1..Len(s) |-> IF s[i] = NBHYPHEN THEN "-" ELSE s[i]]

\* str.strip()
Strip(s) ==
    LET keep == {i \in 1..Len(s) : s[i] \notin Whitespace} IN
    IF keep = {} THEN <<>>
    ELSE LET lo == CHOOSE i \in keep : \A j \in keep : i <= j
             hi == CHOOSE i \in keep : \A j \in keep : j <= i
         IN SubSeq(s, lo, hi)

\* " " in s
HasSpace(s) == \E i \in 1..Len(s) : s[i] = " "

\* dict.get(key, default) on a keyword row
GetSeverity(item) == IF "severity" \in DOMAIN item THEN item.severity ELSE "LOW"

\* d[k] = v on a dict
Put(d, k, v) == [x \in (DOMAIN d) \cup {k} |-> IF x = k THEN v ELSE d[x]]

EmptyDict == [x \in {} |-> x]

----------------------------------------------------------------------------
(* ahocorasick.Automaton, as far as KeywordMatcher uses it.  The automaton  *)
(* is its kind (EMPTY, TRIE, AHOCORASICK) and its key -> value store.       *)

NewAutomaton == [kind |-> "EMPTY", words |-> EmptyDict]

\* an add_word that leaves the value of a key that is already there
AddWordKeepFirst(A, key, value) ==
    [kind |-> "TRIE",
     words |-> IF key \in DOMAIN A.words THEN A.words ELSE Put(A.words, key, value)]

\* automaton.add_word(key, value): stores value under key, replacing the
\* value of a key that is already there
AddWord(A, key, value) == [kind |-> "TRIE", words |-> Put(A.words, key, value)]

\* automaton.make_automaton(): converts a trie; leaves an automaton without
\* any key as it is
MakeAutomaton(A) == IF A.kind = "TRIE" THEN [A EXCEPT !.kind = "AHOCORASICK"] ELSE A

\* the keys that end at Python index e of s
KeysEndingAt(A, s, e) ==
    {k \in DOMAIN A.words :
        Len(k) <= e + 1 /\ SubSeq(s, e + 2 - Len(k), e + 1) = k}

\* an iteration that yields only the longest key ending at each index
LongestOnly(K) ==
    IF K = {} THEN <<>>
    ELSE <<CHOOSE x \in K : \A y \in K : Len(y) <= Len(x)>>

RECURSIVE LongestFirst(_)
\* keys ending at one index, in the order the automaton outputs them: the
\* node's own key, then the keys along its suffix links (ever shorter)
LongestFirst(K) ==
    IF K = {} THEN <<>>
    ELSE LET k == CHOOSE x \in K : \A y \in K : Len(y) <= Len(x)
         IN <<k>> \o LongestFirst(K \ {k})

RECURSIVE IterFromDescending(_, _, _)
\* an iteration that yields the keys of the later end indexes first
IterFromDescending(A, s, e) ==
    IF e >= Len(s) THEN <<>>
    ELSE LET ks == LongestFirst(KeysEndingAt(A, s, e))
         IN IterFromDescending(A, s, e + 1) \o [j \in 1..Len(ks) |-> <<e, A.words[ks[j]]>>]

RECURSIVE IterFrom(_, _, _)
IterFrom(A, s, e) ==
    IF e >= Len(s) THEN <<>>
    ELSE LET ks == LongestFirst(KeysEndingAt(A, s, e))
         IN [j \in 1..Len(ks) |-> <<e, A.words[ks[j]]>>] \o IterFrom(A, s, e + 1)

\* automaton.iter(s): the (end_index, value) pairs of every key occurring in
\* s, by increasing end index
AutomatonIter(A, s) == IterFrom(A, s, 0)

\* automaton.iter raises AttributeError ("Not an Aho-Corasick automaton
\* yet ...") unless make_automaton has converted a trie
IterRaises(A) == A.kind # "AHOCORASICK"

----------------------------------------------------------------------------
(* KeywordMatcher                                                          *)

\* item.get("keyword", "")
GetKeyword(item) == IF "keyword" \in DOMAIN item THEN item.keyword ELSE <<>>

\* item.get("categories", [])
GetCategories(item) == IF "categories" \in DOMAIN item THEN item.categories ELSE <<>>

\* the pass without its test for an empty or blank keyword
AddItemNoGuard(m, item) ==
    LET keyword == GetKeyword(item)
        normalized == Strip(Lower(keyword))
        data == [categories |-> GetCategories(item),
                 severity   |-> GetSeverity(item),
                 original   |-> keyword]
    IN IF HasSpace(normalized)
       THEN [m EXCEPT !.phrases = Put(@, normalized, data),
                      !.automaton = AddWord(@, normalized, <<normalized, data, "phrase">>)]
       ELSE [m EXCEPT !.single_words = Put(@, normalized, data),
                      !.automaton = AddWord(@, normalized, <<normalized, data, "word">>)]

\* one pass of the loop of __init__ over keyword_data; m is the matcher
AddItem(m, item) ==
    LET keyword == GetKeyword(item) IN
    IF keyword # <<>> /\ Strip(keyword) # <<>>
    THEN LET normalized == Strip(Lower(keyword))
             data == [categories |-> GetCategories(item),
                      severity   |-> GetSeverity(item),
                      original   |-> keyword]
         IN IF HasSpace(normalized)
            THEN [m EXCEPT !.phrases = Put(@, normalized, data),
                           !.automaton = AddWord(@, normalized, <<normalized, data, "phrase">>)]
            ELSE [m EXCEPT !.single_words = Put(@, normalized, data),
                           !.automaton = AddWord(@, normalized, <<normalized, data, "word">>)]
    ELSE m

RECURSIVE AddItems(_, _, _)
AddItems(m, kd, i) ==
    IF i > Len(kd) THEN m ELSE AddItems(AddItem(m, kd[i]), kd, i + 1)

\* KeywordMatcher.__init__(keyword_data)
KeywordMatcherInit(kd) ==
    LET m == AddItems([single_words |-> EmptyDict, phrases |-> EmptyDict,
                       automaton |-> NewAutomaton], kd, 1)
    IN [m EXCEPT !.automaton = MakeAutomaton(@)]

\* word_boundary_pattern.match(c), the pattern being [a-zA-Z0-9-]
WordBoundaryPattern(c) ==
    c \in LowerLetters \cup UpperLetters \cup Digits \cup {"-"}

\* _check_word_boundary without its right-boundary test
CheckWordBoundaryLeftOnly(t, start, end) ==
    IF start > 0 /\ WordBoundaryPattern(t[start]) THEN FALSE ELSE TRUE

\* _check_word_boundary(text, start, end)
CheckWordBoundary(t, start, end) ==
    IF start > 0 /\ WordBoundaryPattern(t[start]) THEN FALSE
    ELSE IF end < Len(t) /\ WordBoundaryPattern(t[end + 1]) THEN FALSE
    ELSE TRUE

\* text.lower() alone
NormalizeTextLowerOnly(t) == Lower(t)

\* text.lower().replace("\u2011", "-")
NormalizeText(t) == ReplaceNBHyphen(Lower(t))

\* start_pos = end_pos - len(keyword) + 1
StartPos(end_pos, keyword) == end_pos - Len(keyword) + 1

\* the boundary test applied to every match, whatever its type
PassesBoundaryAnyType(match_type, text_normalized, start_pos, end_pos) ==
    CheckWordBoundary(text_normalized, start_pos, end_pos + 1)

\* the boundary test of the loop: does the match survive it
PassesBoundary(match_type, text_normalized, start_pos, end_pos) ==
    match_type = "word" => CheckWordBoundary(text_normalized, start_pos, end_pos + 1)

\* the append without seen_violations.add(violation_key)
RecordNoAdd(acc, keyword, data, start_pos) ==
    LET violation_key == <<keyword, start_pos>> IN
    IF violation_key \notin acc.seen_violations
    THEN [violations |-> Append(acc.violations,
                                [keyword    |-> keyword,
                                 categories |-> data.categories,
                                 severity   |-> data.severity]),
          seen_violations |-> acc.seen_violations]
    ELSE acc

\* the deduplicating append at the end of the loop body
Record(acc, keyword, data, start_pos) ==
    LET violation_key == <<keyword, start_pos>> IN
    IF violation_key \notin acc.seen_violations
    THEN [violations |-> Append(acc.violations,
                                [keyword    |-> keyword,
                                 categories |-> data.categories,
                                 severity   |-> data.severity]),
          seen_violations |-> acc.seen_violations \cup {violation_key}]
    ELSE acc

\* one pass of the loop of find_violations over automaton.iter(...)
LoopBody(acc, it, text_normalized) ==
    LET end_pos    == it[1]
        keyword    == it[2][1]
        data       == it[2][2]
        match_type == it[2][3]
        start_pos  == StartPos(end_pos, keyword)
    IN IF PassesBoundary(match_type, text_normalized, start_pos, end_pos)
       THEN Record(acc, keyword, data, start_pos)
       ELSE acc

RECURSIVE Loop(_, _, _, _)
Loop(acc, its, i, text_normalized) ==
    IF i > Len(its) THEN acc
    ELSE Loop(LoopBody(acc, its[i], text_normalized), its, i + 1, text_normalized)

\* the locals of a call that starts from the seen_violations of the call
\* before it
KeptLocals == [violations |-> <<>>, seen_violations |-> seen_violations]

\* violations = []; seen_violations = set()
NewLocals == [violations |-> <<>>, seen_violations |-> {}]

\* KeywordMatcher.find_violations(text): what it returns (violations), its
\* local seen_violations at that point, and the exception if it raises
FindViolationsCall(A, t) ==
    LET text_normalized == NormalizeText(t) IN
    IF IterRaises(A)
    THEN [violations |-> <<>>, seen_violations |-> {}, raised |-> "AttributeError"]
    ELSE LET acc == Loop(NewLocals,
                         AutomatonIter(A, text_normalized), 1, text_normalized)
         IN [violations |-> acc.violations,
             seen_violations |-> acc.seen_violations,
             raised |-> "None"]

----------------------------------------------------------------------------
(* The report: ModerationEngine.process_transcript and lambda_handler      *)

PyNone == "None"

\* the Violation stamped with the end of the caption block
ToViolationEndTime(utterance, violation_data) ==
    [keyword    |-> violation_data.keyword,
     speaker    |-> utterance.speaker,
     text       |-> utterance.text,
     timestamp  |-> utterance.end_time,
     categories |-> violation_data.categories,
     severity   |-> violation_data.severity]

\* Violation(keyword=..., speaker=utterance.speaker, text=utterance.text,
\*           timestamp=utterance.start_time, categories=..., severity=...)
ToViolation(utterance, violation_data) ==
    [keyword    |-> violation_data.keyword,
     speaker    |-> utterance.speaker,
     text       |-> utterance.text,
     timestamp  |-> utterance.start_time,
     categories |-> violation_data.categories,
     severity   |-> violation_data.severity]

\* the inner loop putting the hits of an utterance in front of the list
ExtendFront(violations, utterance, found) ==
    [j \in 1..Len(found) |-> ToViolation(utterance, found[j])] \o violations

\* the inner loop: violations.append(...) for each hit of one utterance
Extend(violations, utterance, found) ==
    violations \o [j \in 1..Len(found) |-> ToViolation(utterance, found[j])]

RECURSIVE Moderate(_, _, _, _)
\* the loop over the utterances; it ends early when find_violations raises
Moderate(A, utts, i, violations) ==
    IF i > Len(utts) THEN [violations |-> violations, raised |-> PyNone]
    ELSE LET r == FindViolationsCall(A, utts[i].text) IN
         IF r.raised # PyNone
         THEN [violations |-> violations, raised |-> r.raised]
         ELSE Moderate(A, utts, i + 1, Extend(violations, utts[i], r.violations))

\* severity_scores.get(severity, 0)
SeverityScoreUnknownZero(severity) ==
    CASE severity = "LOW" -> 1
      [] severity = "MEDIUM" -> 5
      [] severity = "HIGH" -> 10
      [] OTHER -> 0

\* severity_scores.get(severity, 1), severity_scores being
\* {"LOW": 1, "MEDIUM": 5, "HIGH": 10}
SeverityScore(severity) ==
    CASE severity = "LOW" -> 1
      [] severity = "MEDIUM" -> 5
      [] severity = "HIGH" -> 10
      [] OTHER -> 1

RECURSIVE SumScores(_, _)
SumScores(violations, i) ==
    IF i > Len(violations) THEN 0
    ELSE SeverityScore(violations[i].severity) + SumScores(violations, i + 1)

\* compound_score = sum(severity_scores.get(v.severity, 1) for v in violations)
CompoundScore(violations) == SumScores(violations, 1)

severity_order == <<"HIGH", "MEDIUM", "LOW">>

\* the severity most violations carry, instead of the first one of
\* severity_order that is present
HighestSeverityByCount(violations) ==
    IF violations # <<>>
    THEN LET n(sev) == Cardinality({j \in DOMAIN violations : violations[j].severity = sev})
             present == {k \in DOMAIN severity_order : n(severity_order[k]) > 0}
         IN IF present = {} THEN "LOW"
            ELSE severity_order[CHOOSE k \in present : \A l \in present :
                                    \/ n(severity_order[l]) < n(severity_order[k])
                                    \/ (n(severity_order[l]) = n(severity_order[k]) /\ l <= k)]
    ELSE PyNone

\* next((sev for sev in severity_order if any(v.severity == sev ...)), "LOW")
\* when there are violations, None otherwise
HighestSeverity(violations) ==
    IF violations # <<>>
    THEN LET present == {k \in DOMAIN severity_order :
                            \E j \in DOMAIN violations :
                                violations[j].severity = severity_order[k]}
         IN IF present = {} THEN "LOW"
            ELSE severity_order[CHOOSE k \in present : \A l \in present : k <= l]
    ELSE PyNone

\* the abbreviated record appended to a category's list
Abbreviated(violation) ==
    [keyword   |-> violation.keyword,
     speaker   |-> violation.speaker,
     timestamp |-> violation.timestamp,
     severity  |-> violation.severity]

\* the body of "for category in violation.categories"; the list of the
\* entry is kept under items, its speakers as a set
AddCategory(category_report, violation, category) ==
    LET e == IF category \in DOMAIN category_report
             THEN category_report[category]
             ELSE [count |-> 0, items |-> <<>>, speakers |-> {}]
    IN Put(category_report, category,
           [count    |-> e.count + 1,
            items    |-> Append(e.items, Abbreviated(violation)),
            speakers |-> e.speakers \cup {violation.speaker}])

RECURSIVE AddCategories(_, _, _)
AddCategories(category_report, violation, k) ==
    IF k > Len(violation.categories) THEN category_report
    ELSE AddCategories(AddCategory(category_report, violation, violation.categories[k]),
                       violation, k + 1)

RECURSIVE Categorize(_, _, _)
\* the loop "for violation in violations" that fills category_report
Categorize(category_report, violations, j) ==
    IF j > Len(violations) THEN category_report
    ELSE Categorize(AddCategories(category_report, violations[j], 1), violations, j + 1)

\* the lists list(S) may return for a set S: its elements, once each, in
\* an order the code does not fix
ListsOf(S) ==
    {q \in [1..Cardinality(S) -> S] : \A i, j \in DOMAIN q : i # j => q[i] # q[j]}

\* the speaker of the first violation alone
SpeakerSetFirstOnly(violations) ==
    IF violations = <<>> THEN {} ELSE {violations[1].speaker}

\* set(v.speaker for v in violations)
SpeakerSet(violations) == {violations[j].speaker : j \in DOMAIN violations}

\* the ways the speakers sets of category_report can be turned into lists
SpeakerLists(category_report) ==
    LET all == UNION {category_report[c].speakers : c \in DOMAIN category_report}
    IN {f \in [DOMAIN category_report -> UNION {ListsOf(T) : T \in SUBSET all}] :
           \A c \in DOMAIN category_report : f[c] \in ListsOf(category_report[c].speakers)}

\* process_transcript's return value; speakers_list and category_speakers
\* are the lists its list(set) conversions came to
EngineReport(utts, violations, speakers_list, category_speakers) ==
    LET cr == Categorize(EmptyDict, violations, 1) IN
    [total_utterances        |-> Len(utts),
     total_flags             |-> Len(violations),
     compound_severity_score |-> CompoundScore(violations),
     highest_severity_level  |-> HighestSeverity(violations),
     flags                   |-> violations,
     speakers_with_flags     |-> speakers_list,
     category_report         |->
         [c \in DOMAIN cr |-> [count    |-> cr[c].count,
                               flags    |-> cr[c].items,
                               speakers |-> category_speakers[c]]]]

\* what the message body and the clock give lambda_handler
JobId == "job-1"

TranscriptS3Url == "s3://recordings/zoom/audio_transcript.VTT"

TranscriptKey == "zoom/audio_transcript.VTT"

UtcNow == "utcnow"

\* lambda_handler's results dict
HandlerResults(utts, violations, speakers_list, category_speakers) ==
    LET cr == Categorize(EmptyDict, violations, 1) IN
    [job_id                   |-> JobId,
     transcript_file          |-> TranscriptKey,
     transcript_s3_url        |-> TranscriptS3Url,
     processed_at             |-> UtcNow,
     total_utterances         |-> Len(utts),
     total_violations         |-> Len(violations),
     compound_severity_score  |-> CompoundScore(violations),
     highest_severity_level   |-> HighestSeverity(violations),
     violations               |-> violations,
     speakers_with_violations |-> speakers_list,
     category_report          |->
         [c \in DOMAIN cr |-> [count      |-> cr[c].count,
                               violations |-> cr[c].items,
                               speakers   |-> category_speakers[c]]]]

----------------------------------------------------------------------------
(* TranscriptParser.parse_vtt                                              *)

\* the first 1-based index of s at which sep occurs, 0 if there is none
Find(s, sep) ==
    LET at == {p \in 1..(Len(s) - Len(sep) + 1) : SubSeq(s, p, p + Len(sep) - 1) = sep}
    IN IF at = {} THEN 0 ELSE CHOOSE p \in at : \A q \in at : p <= q

RECURSIVE Split(_, _)
\* str.split(sep)
Split(s, sep) ==
    LET p == Find(s, sep) IN
    IF p = 0 THEN <<s>>
    ELSE <<SubSeq(s, 1, p - 1)>> \o Split(SubSeq(s, p + Len(sep), Len(s)), sep)

\* str.split(sep, 1)
SplitOnce(s, sep) ==
    LET p == Find(s, sep) IN
    IF p = 0 THEN <<s>>
    ELSE <<SubSeq(s, 1, p - 1), SubSeq(s, p + Len(sep), Len(s))>>

\* sub in s
Contains(s, sub) == Find(s, sub) # 0

\* \d{2}:\d{2}:\d{2}\.\d{3}, "\\d" standing for the class of the digits
TimePattern ==
    <<"\\d","\\d",":","\\d","\\d",":","\\d","\\d",".","\\d","\\d","\\d">>

Arrow == <<" ","-","-",">"," ">>

\* (\d{2}:\d{2}:\d{2}\.\d{3}) --> (\d{2}:\d{2}:\d{2}\.\d{3})
TimestampPattern == TimePattern \o Arrow \o TimePattern

\* does the pattern match s at the 1-based index p
PatternMatchesAt(s, p) ==
    /\ p + Len(TimestampPattern) - 1 <= Len(s)
    /\ \A i \in 1..Len(TimestampPattern) :
          IF TimestampPattern[i] = "\\d"
          THEN s[p + i - 1] \in Digits
          ELSE s[p + i - 1] = TimestampPattern[i]

\* re.search(pattern, s): the index of the leftmost match, 0 for no match
Search(s) ==
    LET at == {p \in 1..Len(s) : PatternMatchesAt(s, p)}
    IN IF at = {} THEN 0 ELSE CHOOSE p \in at : \A q \in at : p <= q

\* timestamp_match.group(1) and timestamp_match.group(2)
Group(s, p, n) ==
    IF n = 1 THEN SubSeq(s, p, p + Len(TimePattern) - 1)
    ELSE SubSeq(s, p + Len(TimePattern) + Len(Arrow), p + Len(TimestampPattern) - 1)

\* the body of the loop over lines[2:], putting the utterance in front
ParseLinePrepend(utts, line, start_time, end_time) ==
    IF Contains(line, <<":">>)
    THEN LET parts   == SplitOnce(line, <<":">>)
             speaker == Strip(parts[1])
             caption == IF Len(parts) > 1 THEN Strip(parts[2]) ELSE <<>>
         IN IF caption # <<>>
            THEN <<[speaker |-> speaker, text |-> caption,
                    start_time |-> start_time, end_time |-> end_time]>> \o utts
            ELSE utts
    ELSE utts

\* the body of the loop over lines[2:]
ParseLine(utts, line, start_time, end_time) ==
    IF Contains(line, <<":">>)
    THEN LET parts   == SplitOnce(line, <<":">>)
             speaker == Strip(parts[1])
             caption == IF Len(parts) > 1 THEN Strip(parts[2]) ELSE <<>>
         IN IF caption # <<>>
            THEN Append(utts, [speaker |-> speaker, text |-> caption,
                               start_time |-> start_time, end_time |-> end_time])
            ELSE utts
    ELSE utts

RECURSIVE ParseLines(_, _, _, _, _)
\* for line in lines[2:]
ParseLines(utts, lines, i, start_time, end_time) ==
    IF i > Len(lines) THEN utts
    ELSE ParseLines(ParseLine(utts, lines[i], start_time, end_time),
                    lines, i + 1, start_time, end_time)

WEBVTT == <<"W","E","B","V","T","T">>

\* the body of the loop over the blocks without its test for WEBVTT
ParseBlockNoHeaderTest(utts, block) ==
    LET lines == Split(Strip(block), <<"\n">>) IN
    IF Len(lines) < 3 THEN utts
    ELSE LET timestamp_match == Search(block) IN
         IF timestamp_match = 0 THEN utts
         ELSE ParseLines(utts, lines, 3, Group(block, timestamp_match, 1),
                         Group(block, timestamp_match, 2))

\* the body of the loop over the blocks
ParseBlock(utts, block) ==
    LET lines == Split(Strip(block), <<"\n">>) IN
    IF Len(lines) < 3 \/ Contains(lines[1], WEBVTT) THEN utts
    ELSE LET timestamp_match == Search(block) IN
         IF timestamp_match = 0 THEN utts
         ELSE ParseLines(utts, lines, 3, Group(block, timestamp_match, 1),
                         Group(block, timestamp_match, 2))

RECURSIVE ParseBlocks(_, _, _)
\* for block in blocks
ParseBlocks(utts, blocks, i) ==
    IF i > Len(blocks) THEN utts
    ELSE ParseBlocks(ParseBlock(utts, blocks[i]), blocks, i + 1)

\* TranscriptParser.parse_vtt(content)
ParseVtt(vtt) == ParseBlocks(<<>>, Split(Strip(vtt), <<"\n", "\n">>), 1)

----------------------------------------------------------------------------
(* ModerationEngine._load_keywords.  A row of csv.DictReader is a record    *)
(* over the columns of the header; cleaned_words is a str, the other two    *)
(* cells are named by their text.                                           *)

\* ast.literal_eval on the mod_categories cells of the tables: the value, or
\* the exception it raises.  The str 'HATE' is the sequence of its
\* characters, which is what iterating over it gives.
LiteralEval(categories_str) ==
    CASE categories_str = "[]" ->
             [value |-> <<>>, raised |-> PyNone]
      [] categories_str = "['VIOLENCE']" ->
             [value |-> <<"VIOLENCE">>, raised |-> PyNone]
      [] categories_str = "'HATE'" ->
             [value |-> <<"H", "A", "T", "E">>, raised |-> PyNone]
      [] categories_str = "VIOLENCE" ->
             [value |-> <<>>, raised |-> "ValueError"]
      [] categories_str = "['VIOLENCE'" ->
             [value |-> <<>>, raised |-> "SyntaxError"]
      [] categories_str = "{[1]: 2}" ->
             [value |-> <<>>, raised |-> "TypeError"]

\* categories = ast.literal_eval(categories_str) if categories_str else [],
\* with the except clause for ValueError and SyntaxError
DecodeCategories(row) ==
    LET categories_str == IF "mod_categories" \in DOMAIN row
                          THEN row.mod_categories ELSE "[]"
    IN IF categories_str = ""
       THEN [value |-> <<>>, raised |-> PyNone]
       ELSE LET r == LiteralEval(categories_str) IN
            IF r.raised \in {"ValueError", "SyntaxError"}
            THEN [value |-> <<>>, raised |-> PyNone]
            ELSE r

\* row.get("mod_critical") with MEDIUM for a row without the key
LoadSeverityDefaultMedium(row) ==
    IF "mod_critical" \in DOMAIN row THEN row.mod_critical ELSE "MEDIUM"

\* row.get("mod_critical", "LOW")
LoadSeverity(row) ==
    IF "mod_critical" \in DOMAIN row THEN row.mod_critical ELSE "LOW"

\* one pass of the loop over the rows; acc is keyword_data and the exception
\* that ended the loop, if any
LoadRow(acc, row) ==
    IF acc.raised # PyNone THEN acc
    ELSE IF "cleaned_words" \in DOMAIN row /\ row.cleaned_words # <<>>
    THEN LET d == DecodeCategories(row) IN
         IF d.raised # PyNone
         THEN [acc EXCEPT !.raised = d.raised]
         ELSE [acc EXCEPT !.keyword_data =
                   Append(@, [keyword    |-> row.cleaned_words,
                              categories |-> d.value,
                              severity   |-> LoadSeverity(row)])]
    ELSE acc

RECURSIVE LoadRows(_, _, _)
LoadRows(acc, rows, i) ==
    IF i > Len(rows) THEN acc ELSE LoadRows(LoadRow(acc, rows[i]), rows, i + 1)

\* ModerationEngine._load_keywords(csv_path)
LoadKeywords(file) == LoadRows([keyword_data |-> <<>>, raised |-> PyNone], file.rows, 1)

----------------------------------------------------------------------------
(* Inputs                                                                  *)

MaxRows == 2

MaxTextLen == 4

\* the keyword rows the bounded dictionaries are made of: a single word, a
\* phrase, a hyphenated word without a severity, a second spelling of the
\* single word, and a whitespace-only keyword
KeywordRows ==
    { [keyword |-> <<"a">>, categories |-> <<"VIOLENCE">>, severity |-> "HIGH"],
      [keyword |-> <<"a", " ", "a">>, categories |-> <<"VIOLENCE", "HATE">>,
       severity |-> "MEDIUM"],
      [keyword |-> <<"a", "-", "a">>, categories |-> <<"HATE", "HATE">>],
      [keyword |-> <<" ", "A">>, categories |-> <<>>, severity |-> "SAFE"],
      [keyword |-> <<" ">>, categories |-> <<"HATE">>, severity |-> "LOW"] }

S_ass == <<"a","s","s">>

S_class == <<"c","l","a","s","s">>

S_assassin == <<"a","s","s","a","s","s","i","n">>

S_you_ass == <<"y","o","u"," ","a","s","s">>

S_go_away_now == <<"g","o"," ","a","w","a","y"," ","n","o","w">>

S_please == <<"p","l","e","a","s","e"," ","g","o"," ","a","w","a","y"," ","n","o","w"," ","p","l","e","a","s","e">>

S_please_punct == <<"p","l","e","a","s","e",",","g","o"," ","a","w","a","y"," ","n","o","w","!">>

S_self_harm == <<"s","e","l","f","-","h","a","r","m">>

S_Self_Harm_nb == <<"S","e","l","f","U+2011","H","a","r","m">>

S_SELF_HARM == <<"S","E","L","F","-","H","A","R","M">>

\* the dictionary of the examples of the specification
ExampleKeywordData ==
    << [keyword |-> S_self_harm, categories |-> <<"SELF_HARM">>, severity |-> "LOW"],
       [keyword |-> S_ass, categories |-> <<"VIOLENCE">>, severity |-> "HIGH"],
       [keyword |-> S_go_away_now, categories |-> <<"VIOLENCE">>, severity |-> "MEDIUM"] >>

ExampleTexts ==
    {S_ass, S_class, S_assassin, S_you_ass, S_please, S_please_punct,
     S_Self_Harm_nb, S_SELF_HARM}

SeqsUpTo(S, n) == UNION {[1..k -> S] : k \in 0..n}

KeywordData == SeqsUpTo(KeywordRows, MaxRows) \cup {ExampleKeywordData}

TextChars == {"a", "A", " ", "-", NBHYPHEN}

Texts == SeqsUpTo(TextChars, MaxTextLen) \cup ExampleTexts

MaxUtterances == 2

Speakers == {"alice", "bob"}

\* utterance texts as parse_vtt yields them: stripped and not empty
TranscriptTexts ==
    {<<"a">>, <<"a", " ", "a">>, <<"A", NBHYPHEN, "a">>}

\* the start and end of the caption block of the i-th utterance
StartTimes == <<"00:00:01.000", "00:00:05.000", "00:00:09.000", "00:00:13.000">>

EndTimes == <<"00:00:04.000", "00:00:08.000", "00:00:12.000", "00:00:16.000">>

UtteranceAt(i, speaker, t) ==
    [speaker |-> speaker, text |-> t,
     start_time |-> StartTimes[i], end_time |-> EndTimes[i]]

\* the transcript of the examples of the specification
ExampleTranscript ==
    << UtteranceAt(1, "alice", S_Self_Harm_nb),
       UtteranceAt(2, "bob", S_you_ass),
       UtteranceAt(3, "alice", S_please) >>

Transcripts ==
    {[i \in DOMAIN q |-> UtteranceAt(i, q[i][1], q[i][2])] :
        q \in SeqsUpTo(Speakers \X TranscriptTexts, MaxUtterances)}
    \cup {ExampleTranscript}

NoReport == [none |-> TRUE]

\* no keyword table was read
NoFile == [header |-> {}, rows |-> <<>>]

MaxCsvRows == 2

Columns == {"cleaned_words", "mod_categories", "mod_critical"}

\* the headers of the keyword tables: all columns, or one of the optional
\* ones missing
Headers == {Columns, Columns \ {"mod_critical"}, Columns \ {"mod_categories"}}

\* the rows the bounded keyword tables are made of: a word, a second
\* spelling of it whose categories are a str, a phrase whose categories are a
\* bare word, an empty keyword, a blank keyword with an unclosed list, and
\* two spellings of a hyphenated word, one whose categories raise TypeError
\* and one with empty cells
CsvRows ==
    { [cleaned_words |-> <<"a">>, mod_categories |-> "['VIOLENCE']", mod_critical |-> "HIGH"],
      [cleaned_words |-> <<" ", "A">>, mod_categories |-> "'HATE'", mod_critical |-> "SAFE"],
      [cleaned_words |-> <<"a", " ", "a">>, mod_categories |-> "VIOLENCE",
       mod_critical |-> "MEDIUM"],
      [cleaned_words |-> <<>>, mod_categories |-> "['VIOLENCE']", mod_critical |-> "LOW"],
      [cleaned_words |-> <<" ">>, mod_categories |-> "['VIOLENCE'", mod_critical |-> "LOW"],
      [cleaned_words |-> <<"a", "-", "a">>, mod_categories |-> "{[1]: 2}",
       mod_critical |-> "LOW"],
      [cleaned_words |-> <<"A", "-", "A">>, mod_categories |-> "", mod_critical |-> ""] }

\* the keyword tables: every row has the columns of the header
CsvFiles ==
    {[header |-> h, rows |-> [i \in DOMAIN q |-> [c \in h |-> q[i][c]]]] :
        h \in Headers, q \in SeqsUpTo(CsvRows, MaxCsvRows)}

\* the texts given to the matcher of a loaded table
CallTexts == TranscriptTexts \cup {<<"a", "-", "a", " ", "a">>}

MaxBlocks == 2

DigitSeq == <<"0","1","2","3","4","5","6","7","8","9">>

\* the start and the end of the cue of the i-th block of a document
StartStamp(i) == <<"0","0",":","0","0",":","0",DigitSeq[i + 1],".","0","0","0">>

EndStamp(i) == <<"0","0",":","0","0",":","0",DigitSeq[i + 1],".","5","0","0">>

\* the place of the timestamp line in a block of a document
TimestampLine == <<"-->">>

L_1 == <<"1">>

L_NOTE == <<"N","O","T","E">>

L_alice_hi == <<"a","l","i","c","e",":"," ","h","i">>

L_bob_yo == <<"b","o","b",":"," ","y","o">>

L_bob_a_b == <<"b","o","b",":"," ","a",":"," ","b">>

L_bob_blank == <<"b","o","b",":"," "," ">>

L_hm == <<"h","m">>

L_no_millis == <<"0","0",":","0","0",":","0","1"," ","-","-",">"," ","0","0",":","0","0",":","0","4">>

\* the blocks the bounded documents are made of: the header, a cue with one
\* caption line, a cue whose caption lines have a second colon, an empty
\* text and no colon, a cue without the line of the cue number, a cue with a
\* note before the timestamp line, and blocks of two lines, without a
\* timestamp and with WEBVTT in the first line
VttBlocks ==
    { <<WEBVTT>>,
      <<L_1, TimestampLine, L_alice_hi>>,
      <<L_1, TimestampLine, L_bob_a_b, L_bob_blank, L_hm, L_bob_yo>>,
      <<TimestampLine, L_alice_hi, L_bob_yo>>,
      <<L_1, L_NOTE, TimestampLine, L_bob_yo>>,
      <<TimestampLine, L_alice_hi>>,
      <<L_1, L_no_millis, L_alice_hi>>,
      <<WEBVTT, TimestampLine, L_alice_hi>> }

\* the transcript of the example: a header and two cues, distinct speakers
ExampleDocument ==
    << <<WEBVTT>>, <<L_1, TimestampLine, L_alice_hi>>, <<L_1, TimestampLine, L_bob_yo>> >>

Documents == SeqsUpTo(VttBlocks, MaxBlocks) \cup {ExampleDocument}

RECURSIVE Join(_, _)
\* sep.join(parts)
Join(parts, sep) ==
    IF parts = <<>> THEN <<>>
    ELSE IF Len(parts) = 1 THEN parts[1]
    ELSE parts[1] \o sep \o Join(Tail(parts), sep)

\* a line of the i-th block of a document as the file holds it
LineText(line, i) ==
    IF line = TimestampLine THEN StartStamp(i) \o Arrow \o EndStamp(i) ELSE line

\* the text of the i-th block of a document
BlockText(block, i) ==
    Join([l \in DOMAIN block |-> LineText(block[l], i)], <<"\n">>)

\* the content of the file that holds the document
FileContent(doc) ==
    Join([i \in DOMAIN doc |-> BlockText(doc[i], i)], <<"\n", "\n">>) \o <<"\n">>

----------------------------------------------------------------------------
(* The actions and the specifications                                      *)

\* no call in progress
NoCalls == <<>>

\* no item of the job in the table
NoItem == EmptyDict

\* no handler has run
NoResponse == [by |-> "none", status |-> "none", step |-> "none", db_error |-> FALSE]

\* call_webhook_with_retry has not been called
NoRetry ==
    [state |-> "idle", max_retries |-> 0, attempt |-> 0, log |-> <<>>,
     result |-> "None"]

\* no job, no message, no file
NoJob ==
    /\ job_item = NoItem
    /\ records = <<>>
    /\ handled = 0
    /\ queues = [rules |-> 0, text_llm |-> 0, image |-> 0]
    /\ received = [rules |-> 0, text_llm |-> 0, image |-> 0]
    /\ s3_results = {}
    /\ text_server = "poll"
    /\ webhook = [attempts |-> 0, posts |-> 0]
    /\ response = NoResponse
    /\ moderated = {}
    /\ retry = NoRetry

\* the pipeline before its first request, every lambda with its
\* environment variables set, the rules queue handing out one message at
\* a time
NoPipeline ==
    /\ NoJob
    /\ env = [DYNAMO_TABLE_NAME |-> TRUE, TEXT_LLM_QUEUE_URL |-> TRUE,
              table_name |-> TRUE]
    /\ event = <<[job_id |-> JobId]>>

Init ==
    /\ pc = "new"
    /\ keyword_data \in KeywordData
    /\ single_words = EmptyDict
    /\ phrases = EmptyDict
    /\ automaton = NewAutomaton
    /\ text = <<>>
    /\ found_violations = <<>>
    /\ seen_violations = {}
    /\ raised = PyNone
    /\ utterances = <<>>
    /\ report = NoReport
    /\ document = <<>>
    /\ content = <<>>
    /\ csv_file = NoFile
    /\ previous_violations = <<>>
    /\ calls = NoCalls
    /\ NoPipeline

\* matcher = KeywordMatcher(keyword_data)
Construct ==
    /\ pc = "new"
    /\ LET m == KeywordMatcherInit(keyword_data) IN
        /\ single_words' = m.single_words
        /\ phrases' = m.phrases
        /\ automaton' = m.automaton
    /\ pc' = "built"
    /\ UNCHANGED <<keyword_data, text, found_violations, seen_violations,
                   raised, utterances, report, files>>

\* matcher.find_violations(t)
FindViolations ==
    /\ pc = "built"
    /\ \E t \in Texts :
        LET r == FindViolationsCall(automaton, t) IN
        /\ text' = t
        /\ found_violations' = r.violations
        /\ seen_violations' = r.seen_violations
        /\ raised' = r.raised
    /\ pc' = "found"
    /\ UNCHANGED <<keyword_data, single_words, phrases, automaton, utterances,
                   report, files>>

\* ModerationEngine.process_transcript, from the parsed utterances on
ProcessTranscript ==
    /\ pc = "built"
    /\ \E utts \in Transcripts :
        LET m == Moderate(automaton, utts, 1, <<>>) IN
        /\ utterances' = utts
        /\ raised' = m.raised
        /\ IF m.raised # PyNone
           THEN report' = NoReport
           ELSE \E speakers_list \in ListsOf(SpeakerSet(m.violations)) :
                \E category_speakers \in
                       SpeakerLists(Categorize(EmptyDict, m.violations, 1)) :
                   report' = EngineReport(utts, m.violations,
                                          speakers_list, category_speakers)
    /\ pc' = "reported"
    /\ UNCHANGED <<keyword_data, single_words, phrases, automaton, text,
                   found_violations, seen_violations, files>>

\* lambda_handler's moderation of the parsed utterances and its results dict
HandlerModerate ==
    /\ pc = "built"
    /\ \E utts \in Transcripts :
        LET m == Moderate(automaton, utts, 1, <<>>) IN
        /\ utterances' = utts
        /\ raised' = m.raised
        /\ IF m.raised # PyNone
           THEN report' = NoReport
           ELSE \E speakers_list \in ListsOf(SpeakerSet(m.violations)) :
                \E category_speakers \in
                       SpeakerLists(Categorize(EmptyDict, m.violations, 1)) :
                   report' = HandlerResults(utts, m.violations,
                                            speakers_list, category_speakers)
    /\ pc' = "reported"
    /\ UNCHANGED <<keyword_data, single_words, phrases, automaton, text,
                   found_violations, seen_violations, files>>

\* the matcher on its own: construction, then one call of find_violations
Next == Construct \/ FindViolations

Spec == Init /\ [][Next]_vars

\* the engine: construction, then the moderation of one transcript
NextEngine == Construct \/ ProcessTranscript \/ HandlerModerate

SpecEngine == Init /\ [][NextEngine]_vars

\* a transcript file waiting to be parsed
InitParser ==
    /\ pc = "file"
    /\ document \in Documents
    /\ content = FileContent(document)
    /\ keyword_data = <<>>
    /\ single_words = EmptyDict
    /\ phrases = EmptyDict
    /\ automaton = NewAutomaton
    /\ text = <<>>
    /\ found_violations = <<>>
    /\ seen_violations = {}
    /\ raised = PyNone
    /\ utterances = <<>>
    /\ report = NoReport
    /\ csv_file = NoFile
    /\ previous_violations = <<>>
    /\ calls = NoCalls
    /\ NoPipeline

\* utterances = TranscriptParser.parse_vtt(content)
ParseVttCall ==
    /\ pc = "file"
    /\ utterances' = ParseVtt(content)
    /\ raised' = PyNone
    /\ pc' = "parsed"
    /\ UNCHANGED <<keyword_data, single_words, phrases, automaton, text,
                   found_violations, seen_violations, report, files>>

\* the parser on its own
NextParser == ParseVttCall

SpecParser == InitParser /\ [][NextParser]_vars

\* a keyword table waiting to be loaded
InitLoad ==
    /\ pc = "csv"
    /\ csv_file \in CsvFiles
    /\ keyword_data = <<>>
    /\ single_words = EmptyDict
    /\ phrases = EmptyDict
    /\ automaton = NewAutomaton
    /\ text = <<>>
    /\ found_violations = <<>>
    /\ seen_violations = {}
    /\ raised = PyNone
    /\ utterances = <<>>
    /\ report = NoReport
    /\ document = <<>>
    /\ content = <<>>
    /\ previous_violations = <<>>
    /\ calls = NoCalls
    /\ NoPipeline

\* ModerationEngine.__init__:
\* self.matcher = KeywordMatcher(self._load_keywords(keywords_path))
ModerationEngineInit ==
    /\ pc = "csv"
    /\ LET l == LoadKeywords(csv_file) IN
       IF l.raised # PyNone
       THEN /\ raised' = l.raised
            /\ pc' = "failed"
            /\ UNCHANGED <<keyword_data, single_words, phrases, automaton>>
       ELSE LET m == KeywordMatcherInit(l.keyword_data) IN
            /\ keyword_data' = l.keyword_data
            /\ single_words' = m.single_words
            /\ phrases' = m.phrases
            /\ automaton' = m.automaton
            /\ pc' = "built"
            /\ UNCHANGED raised
    /\ UNCHANGED <<text, found_violations, seen_violations, utterances, report, files>>

\* engine.matcher.find_violations(t), the first call
FindViolationsLoaded ==
    /\ pc = "built"
    /\ \E t \in CallTexts :
        LET r == FindViolationsCall(automaton, t) IN
        /\ text' = t
        /\ found_violations' = r.violations
        /\ seen_violations' = r.seen_violations
        /\ raised' = r.raised
    /\ pc' = "found"
    /\ UNCHANGED <<keyword_data, single_words, phrases, automaton, utterances,
                   report, files>>

\* engine.matcher.find_violations(text) once more, on the text of the call
\* before
FindViolationsAgain ==
    /\ pc = "found"
    /\ LET r == FindViolationsCall(automaton, text) IN
        /\ found_violations' = r.violations
        /\ seen_violations' = r.seen_violations
        /\ raised' = r.raised
    /\ previous_violations' = found_violations
    /\ pc' = "again"
    /\ UNCHANGED <<keyword_data, single_words, phrases, automaton, text, utterances,
                   report, document, content, csv_file, rest>>

\* the engine's dictionary: loaded from the table, then used for two calls
NextLoad == ModerationEngineInit \/ FindViolationsLoaded \/ FindViolationsAgain

SpecLoad == InitLoad /\ [][NextLoad]_vars

\* the number of callers that share one matcher
NumCalls == 2

Callers == 1..NumCalls

\* the dictionaries of the shared matcher
SharedKeywordData == SeqsUpTo(KeywordRows, 1) \cup {ExampleKeywordData}

\* the texts the callers pass
SharedTexts == CallTexts \cup {S_you_ass, S_self_harm}

\* a caller that has not called yet
IdleCall == [state |-> "idle", text |-> <<>>, i |-> 1, acc |-> NewLocals,
             raised |-> PyNone]

\* the locals of a call that are shared with the first caller, as
\* attributes of the matcher would be
LocalsOnMatcher(cs, c) == cs[1].acc

\* violations and seen_violations are locals of the call
Locals(cs, c) == cs[c].acc

\* the items automaton.iter(text_normalized) yields to the call of c
CallItems(c) == AutomatonIter(automaton, NormalizeText(calls[c].text))

\* a constructed matcher shared by callers that have not called yet
InitShared ==
    /\ pc = "shared"
    /\ keyword_data \in SharedKeywordData
    /\ LET m == KeywordMatcherInit(keyword_data) IN
        /\ single_words = m.single_words
        /\ phrases = m.phrases
        /\ automaton = m.automaton
    /\ text = <<>>
    /\ found_violations = <<>>
    /\ seen_violations = {}
    /\ raised = PyNone
    /\ utterances = <<>>
    /\ report = NoReport
    /\ document = <<>>
    /\ content = <<>>
    /\ csv_file = NoFile
    /\ previous_violations = <<>>
    /\ calls = [c \in Callers |-> IdleCall]
    /\ NoPipeline

\* caller c enters find_violations(t): the normalization, the two empty
\* locals and the start of the iteration, which raises on an empty automaton
CallEnter(c) ==
    /\ calls[c].state = "idle"
    /\ \E t \in SharedTexts :
        calls' = [calls EXCEPT ![c] =
                    IF IterRaises(automaton)
                    THEN [IdleCall EXCEPT !.state = "returned", !.text = t,
                                          !.raised = "AttributeError"]
                    ELSE [IdleCall EXCEPT !.state = "loop", !.text = t]]
    /\ UNCHANGED <<pc, keyword_data, single_words, phrases, automaton, text,
                   found_violations, seen_violations, raised, utterances, report,
                   document, content, csv_file, previous_violations, pipeline>>

\* one pass of the loop of the call of c
CallLoop(c) ==
    /\ calls[c].state = "loop"
    /\ calls[c].i <= Len(CallItems(c))
    /\ calls' = [calls EXCEPT ![c].acc =
                    LoopBody(Locals(calls, c), CallItems(c)[calls[c].i],
                             NormalizeText(calls[c].text)),
                               ![c].i = @ + 1]
    /\ UNCHANGED <<pc, keyword_data, single_words, phrases, automaton, text,
                   found_violations, seen_violations, raised, utterances, report,
                   document, content, csv_file, previous_violations, pipeline>>

\* return violations
CallReturn(c) ==
    /\ calls[c].state = "loop"
    /\ calls[c].i > Len(CallItems(c))
    /\ calls' = [calls EXCEPT ![c].state = "returned"]
    /\ UNCHANGED <<pc, keyword_data, single_words, phrases, automaton, text,
                   found_violations, seen_violations, raised, utterances, report,
                   document, content, csv_file, previous_violations, pipeline>>

\* callers of one matcher, running find_violations at the same time
NextShared ==
    \E c \in Callers : CallEnter(c) \/ CallLoop(c) \/ CallReturn(c)

SpecShared == InitShared /\ [][NextShared]_vars

----------------------------------------------------------------------------
(* The job pipeline: the entry point, the rules handler, the two polling   *)
(* servers and the stream handler, for one job.  The servers are modelled  *)
(* from poll_queue, process_message and _update_dynamo of a running        *)
(* SQSPollingServer; process_message of the text server ends its statement *)
(* on line 170 with a stray ':' and is read here without it, and __init__  *)
(* of the image server (line 45) asks a boto3 client for .Table: how a     *)
(* server comes to run is not part of the model.  Time stamps (created_at, *)
(* updated_at, failed_at) are left out of the item.                        *)

\* how many times in all a queue hands out a message it has handed out
\* before (the message was not deleted, or its visibility timeout ran out)
MaxRedeliveries == 1

\* how many records an event of the rules queue carries at most
MaxRecords == 2

\* the redeliveries so far
Redeliveries(rcv) ==
    LET Again(q) == IF rcv[q] > 1 THEN rcv[q] - 1 ELSE 0
    IN Again("rules") + Again("text_llm") + Again("image")

\* can the queue q hand its message out
Receivable(q) ==
    /\ queues[q] > 0
    /\ received[q] = 0 \/ Redeliveries(received) < MaxRedeliveries

\* dict.get(key, default)
Get(d, k, default) == IF k \in DOMAIN d THEN d[k] ELSE default

\* the webhook_url of a request: none, one without a host, a good one
WebhookUrls == {"", "https:///cb", "https://hook.example/cb"}

\* urlparse(url).scheme in ['http', 'https'] and urlparse(url).netloc != ''
is_valid_url(url) ==
    CASE url = "https://hook.example/cb" -> TRUE
      [] url = "https:///cb"             -> FALSE
      [] OTHER                           -> FALSE

\* f"s3://{OUTPUT_BUCKET}/moderation-results/{job_id}/..."
ResultUrl(kind) ==
    CASE kind = "rules"   -> "s3://out/moderation-results/job-1/rules_result.json"
      [] kind = "safety"  -> "s3://out/moderation-results/job-1/llm_safety_result.json"
      [] kind = "summary" -> "s3://out/moderation-results/job-1/llm_summary_result.json"
      [] kind = "video"   -> "s3://out/moderation-results/job-1/video_llm_result.json"

\* the item put_item writes for a new job
NewJobItem(webhook_url) ==
    [job_id                               |-> JobId,
     status                               |-> "PROCESSING",
     transcript_complete                  |-> FALSE,
     video_complete                       |-> FALSE,
     combined                             |-> FALSE,
     webhook_url                          |-> webhook_url,
     transcript_rules_result_s3_url       |-> "",
     transcript_llm_summary_result_s3_url |-> "",
     transcript_llm_safety_result_s3_url  |-> "",
     video_llm_result_s3_url              |-> ""]

\* update_item(Key={"job_id": job_id}, UpdateExpression="SET ..."): the
\* attributes are set on the item, which is created if there is none
UpdateItem(it, attrs) ==
    [k \in DOMAIN it \cup DOMAIN attrs \cup {"job_id"} |->
        IF k \in DOMAIN attrs THEN attrs[k]
        ELSE IF k \in DOMAIN it THEN it[k] ELSE JobId]

\* the stream record of a write that turned the item old into new
StreamRecord(old, new, by) ==
    [eventName |-> IF old = NoItem THEN "INSERT"
                   ELSE IF new = NoItem THEN "REMOVE" ELSE "MODIFY",
     OldImage  |-> old,
     NewImage  |-> new,
     by        |-> by]

\* the first message goes out before the item is written
EntryOrderSendFirst == <<"send_rules", "put_item", "send_image">>

\* the steps of a handler in the order it takes them
EntryOrder == <<"put_item", "send_rules", "send_image">>

\* the message goes out before the URL is recorded
RulesOrderSendFirst == <<"upload", "send", "update">>

RulesOrder == <<"upload", "update", "send">>

Index(order, step) == CHOOSE i \in 1..Len(order) : order[i] = step

\* did the run take the step and get past it, when it failed at the step
\* failed ("none": at no step; a step outside the order: before the first)
Completed(order, step, failed) ==
    \/ failed = "none"
    \/ /\ failed \in {order[i] : i \in 1..Len(order)}
       /\ Index(order, step) < Index(order, failed)

\* the entry point's lambda_handler, for the request that creates the job
EntryPoint ==
    /\ response = NoResponse
    /\ \E webhook_url \in WebhookUrls,
          failed \in {"body", "fields", "validate", "put_item", "send_rules",
                      "send_image", "none"} :
        LET put        == Completed(EntryOrder, "put_item", failed)
            sent_rules == Completed(EntryOrder, "send_rules", failed)
            sent_image == Completed(EntryOrder, "send_image", failed)
            it         == NewJobItem(webhook_url)
        IN /\ job_item' = IF put THEN it ELSE job_item
           /\ records' = IF put
                         THEN Append(records, StreamRecord(job_item, it, "entry_point"))
                         ELSE records
           /\ queues' = [queues EXCEPT
                            !.rules = @ + (IF sent_rules THEN 1 ELSE 0),
                            !.image = @ + (IF sent_image THEN 1 ELSE 0)]
           /\ response' = [by     |-> "entry_point",
                           status |-> IF failed = "none" THEN "200"
                                      ELSE IF failed \in {"fields", "validate"}
                                           THEN "400" ELSE "500",
                           step   |-> failed,
                           db_error |-> FALSE]
    /\ UNCHANGED <<pc, engine, event, moderated, retry,
                   handled, received, s3_results, text_server,
                   webhook, env>>

\* the Records of an event: the job's message first, then the messages of
\* other jobs that the queue hands out in the same batch
JobOf(i) == IF i = 1 THEN JobId ELSE <<"job", i>>

Events == {[i \in 1..n |-> [job_id |-> JobOf(i)]] : n \in 1..MaxRecords}

\* the handler writes FAILED whether or not it has a job_id
JobIdKnownAlways(failed) == TRUE

\* "job_id" in locals(): the run got past json.loads and the assignment
\* of job_id
JobIdKnown(failed) == failed # "message"

\* the rules handler's lambda_handler on an event whose first record is
\* the job's message: the moderation itself, then the upload, the record
\* of its URL and the message to the text-LLM queue; on an exception the
\* FAILED status and the re-raise, after which the queue keeps the message.
\* A run fails at "message" (no body, or not JSON), at "job_id" (the body
\* has no job_id: update_item is called with a key that is not a string
\* and raises), at "processing" (no transcript_s3_url, a download, the
\* parser, the engine), at one of the three steps of RulesOrder, or nowhere
RulesHandler ==
    /\ Receivable("rules")
    /\ \E failed \in {"message", "job_id", "processing", "upload", "update",
                       "send", "none"},
          failed_recorded \in BOOLEAN :
        LET record   == event[1]
            uploaded == Completed(RulesOrder, "upload", failed)
            updated  == env.DYNAMO_TABLE_NAME /\ Completed(RulesOrder, "update", failed)
            sent     == env.TEXT_LLM_QUEUE_URL /\ Completed(RulesOrder, "send", failed)
            it1      == IF updated
                        THEN UpdateItem(job_item,
                                 [transcript_rules_result_s3_url |-> ResultUrl("rules")])
                        ELSE job_item
            rs1      == IF updated
                        THEN Append(records, StreamRecord(job_item, it1, "rules"))
                        ELSE records
            tries    == /\ failed # "none"
                        /\ env.DYNAMO_TABLE_NAME
                        /\ JobIdKnown(failed)
            fails    == tries /\ failed # "job_id" /\ failed_recorded
            it2      == IF fails
                        THEN UpdateItem(it1, [status |-> "FAILED",
                                              error_message |-> failed])
                        ELSE it1
        IN /\ failed = "update" => env.DYNAMO_TABLE_NAME
           /\ failed = "send" => env.TEXT_LLM_QUEUE_URL
           /\ moderated' = IF Completed(RulesOrder, "upload", failed)
                              \/ failed = "upload"
                           THEN moderated \cup {record.job_id}
                           ELSE moderated
           /\ s3_results' = IF uploaded THEN s3_results \cup {ResultUrl("rules")}
                            ELSE s3_results
           /\ job_item' = it2
           /\ records' = IF fails
                         THEN Append(rs1, StreamRecord(it1, it2, "rules_failed"))
                         ELSE rs1
           /\ queues' = [queues EXCEPT
                            !.text_llm = @ + (IF sent THEN 1 ELSE 0),
                            !.rules = @ - (IF failed = "none" THEN 1 ELSE 0)]
           /\ response' = [by       |-> "rules",
                           status   |-> IF failed = "none" THEN "200" ELSE "raised",
                           step     |-> failed,
                           db_error |-> tries /\ ~fails]
    /\ received' = [received EXCEPT !.rules = @ + 1]
    /\ UNCHANGED <<pc, engine, event, retry, handled, text_server, webhook, env>>

\* the message is deleted whatever process_message returned
DeletesMessageAlways(success) == TRUE

\* if success: self.sqs.delete_message(...)
DeletesMessage(success) == success

\* every update of the text server reports the transcript complete
IsCompleteAlways(output_type) == TRUE

\* is_complete = output_type == "summary"
IsComplete(output_type) == output_type = "summary"

\* the attributes _update_dynamo of the text server sets
TextUpdate(output_type) ==
    IF output_type = "safety"
    THEN [transcript_llm_safety_result_s3_url  |-> ResultUrl(output_type),
          transcript_complete                  |-> IsComplete(output_type)]
    ELSE [transcript_llm_summary_result_s3_url |-> ResultUrl(output_type),
          transcript_complete                  |-> IsComplete(output_type)]

\* the text server receives the message and process_message runs up to the
\* safety result: saved to S3, then recorded; a failure returns False
TextSafety ==
    /\ text_server = "poll"
    /\ Receivable("text_llm")
    /\ received' = [received EXCEPT !.text_llm = @ + 1]
    /\ \E failed \in {"parse", "download", "llm", "save", "update", "none"},
          delete_ok \in BOOLEAN :
        LET saved   == failed \in {"update", "none"}
            updated == failed = "none"
            it      == UpdateItem(job_item, TextUpdate("safety"))
            deleted == ~updated /\ DeletesMessage(FALSE) /\ delete_ok
        IN /\ s3_results' = IF saved THEN s3_results \cup {ResultUrl("safety")}
                            ELSE s3_results
           /\ job_item' = IF updated THEN it ELSE job_item
           /\ records' = IF updated
                         THEN Append(records, StreamRecord(job_item, it, "text_safety"))
                         ELSE records
           /\ text_server' = IF updated THEN "summary" ELSE "poll"
           /\ queues' = [queues EXCEPT !.text_llm = @ - (IF deleted THEN 1 ELSE 0)]
    /\ UNCHANGED <<pc, engine, event, moderated, retry,
                   handled, webhook, env, response>>

\* process_message goes on to the summary result: saved, then recorded with
\* transcript_complete; poll_queue deletes the message if it returned True
TextSummary ==
    /\ text_server = "summary"
    /\ \E failed \in {"llm", "save", "update", "none"}, delete_ok \in BOOLEAN :
        LET saved   == failed \in {"update", "none"}
            success == failed = "none"
            it      == UpdateItem(job_item, TextUpdate("summary"))
            deleted == DeletesMessage(success) /\ delete_ok
        IN /\ s3_results' = IF saved THEN s3_results \cup {ResultUrl("summary")}
                            ELSE s3_results
           /\ job_item' = IF success THEN it ELSE job_item
           /\ records' = IF success
                         THEN Append(records, StreamRecord(job_item, it, "text_summary"))
                         ELSE records
           /\ queues' = [queues EXCEPT !.text_llm = @ - (IF deleted THEN 1 ELSE 0)]
    /\ text_server' = "poll"
    /\ UNCHANGED <<pc, engine, event, moderated, retry,
                   handled, received, webhook, env, response>>

\* one message of the image server: process_message, then the delete
ImageServer ==
    /\ Receivable("image")
    /\ received' = [received EXCEPT !.image = @ + 1]
    /\ \E failed \in {"parse", "download", "analysis", "save", "update", "none"},
          delete_ok \in BOOLEAN :
        LET saved   == failed \in {"update", "none"}
            success == failed = "none"
            it      == UpdateItem(job_item,
                           [video_llm_result_s3_url |-> ResultUrl("video"),
                            video_complete          |-> TRUE])
            deleted == DeletesMessage(success) /\ delete_ok
        IN /\ s3_results' = IF saved THEN s3_results \cup {ResultUrl("video")}
                            ELSE s3_results
           /\ job_item' = IF success THEN it ELSE job_item
           /\ records' = IF success
                         THEN Append(records, StreamRecord(job_item, it, "image"))
                         ELSE records
           /\ queues' = [queues EXCEPT !.image = @ - (IF deleted THEN 1 ELSE 0)]
    /\ UNCHANGED <<pc, engine, event, moderated, retry,
                   handled, text_server, webhook, env, response>>

max_retries == 3

\* what one http.request can come to: a response, or an exception
HttpResponses ==
    {[kind |-> "response", status |-> st] : st \in {200, 500}}
    \cup {[kind |-> "TimeoutError", status |-> 0]}

RECURSIVE Attempt(_, _)
\* the pass of the loop for attempt (0-based) and the passes after it
Attempt(responses, attempt) ==
    IF attempt >= max_retries
    THEN [success |-> FALSE, attempts |-> attempt]
    ELSE LET r == responses[attempt + 1] IN
         IF r.kind = "response" /\ r.status >= 200 /\ r.status < 300
         THEN [success |-> TRUE, attempts |-> attempt + 1]
         ELSE Attempt(responses, attempt + 1)

\* call_webhook_with_retry, given what the requests come to
call_webhook_with_retry(responses) == Attempt(responses, 0)

\* was_incomplete = not (old_transcript and old_video)
WasIncomplete(old_transcript, old_video) == ~(old_transcript /\ old_video)

\* the stream handler's test of a record: a MODIFY with a job_id that
\* completes both branches of a job not combined yet
ReadyForCombination(record) ==
    /\ record.eventName = "MODIFY"
    /\ "job_id" \in DOMAIN record.NewImage
    /\ LET old_transcript == Get(record.OldImage, "transcript_complete", FALSE)
           old_video      == Get(record.OldImage, "video_complete", FALSE)
           new_transcript == Get(record.NewImage, "transcript_complete", FALSE)
           new_video      == Get(record.NewImage, "video_complete", FALSE)
           combined       == Get(record.NewImage, "combined", FALSE)
           was_incomplete == WasIncomplete(old_transcript, old_video)
           is_complete    == new_transcript /\ new_video
       IN was_incomplete /\ is_complete /\ ~combined

\* the job is marked whatever the webhook call returned
MarksAfterWebhookAlways(webhook_success) == TRUE

\* if webhook_success: ... update_combined_flag(job_id)
MarksAfterWebhook(webhook_success) == webhook_success

\* what the requests of the handler's run on a record can come to; a run
\* that makes no request has one way to go
RequestsOf(record) ==
    IF /\ ReadyForCombination(record)
       /\ is_valid_url(Get(record.NewImage, "webhook_url", ""))
    THEN [1..max_retries -> HttpResponses]
    ELSE {[attempt \in 1..max_retries |-> [kind |-> "TimeoutError", status |-> 0]]}

\* the stream handler's lambda_handler on the next record of the stream
StreamHandler ==
    /\ handled < Len(records)
    /\ handled' = handled + 1
    /\ \E responses \in RequestsOf(records[handled + 1]), update_ok \in BOOLEAN :
        LET record      == records[handled + 1]
            webhook_url == Get(record.NewImage, "webhook_url", "")
            called      == /\ ReadyForCombination(record)
                           /\ webhook_url # ""
                           /\ is_valid_url(webhook_url)
            w           == IF called THEN call_webhook_with_retry(responses)
                           ELSE [success |-> FALSE, attempts |-> 0]
            marks       == /\ ReadyForCombination(record)
                           /\ IF webhook_url = "" THEN TRUE
                              ELSE IF ~is_valid_url(webhook_url) THEN TRUE
                              ELSE MarksAfterWebhook(w.success)
            \* update_combined_flag
            it          == UpdateItem(job_item, [combined |-> TRUE,
                                                 status   |-> "COMPLETE"])
            updated     == marks /\ env.table_name /\ update_ok
        IN /\ webhook' = [attempts |-> webhook.attempts + w.attempts,
                          posts    |-> webhook.posts + (IF w.success THEN 1 ELSE 0)]
           /\ job_item' = IF updated THEN it ELSE job_item
           /\ records' = IF updated
                         THEN Append(records, StreamRecord(job_item, it, "stream"))
                         ELSE records
    /\ UNCHANGED <<pc, engine, event, moderated, retry,
                   queues, received, s3_results, text_server, env,
                   response>>

\* nothing is left to run for the job
Drained ==
    /\ handled = Len(records)
    /\ text_server = "poll"
    /\ \A q \in DOMAIN queues : ~Receivable(q)

\* the item of a finished job is deleted from the table, which writes the
\* REMOVE record the stream handler skips
DeleteItem ==
    /\ job_item # NoItem
    /\ Drained
    /\ job_item' = NoItem
    /\ records' = Append(records, StreamRecord(job_item, NoItem, "delete"))
    /\ UNCHANGED <<pc, engine, event, moderated, retry,
                   handled, queues, received, s3_results, text_server,
                   webhook, env, response>>

\* no matcher, no transcript, no keyword table
EngineIdle ==
    /\ keyword_data = <<>>
    /\ single_words = EmptyDict
    /\ phrases = EmptyDict
    /\ automaton = NewAutomaton
    /\ text = <<>>
    /\ found_violations = <<>>
    /\ seen_violations = {}
    /\ raised = PyNone
    /\ utterances = <<>>
    /\ report = NoReport
    /\ document = <<>>
    /\ content = <<>>
    /\ csv_file = NoFile
    /\ previous_violations = <<>>
    /\ calls = NoCalls

\* no job yet; every lambda with its environment variables set
InitPipeline ==
    /\ pc = "pipeline"
    /\ EngineIdle
    /\ NoPipeline

NextPipeline ==
    \/ EntryPoint
    \/ RulesHandler
    \/ TextSafety
    \/ TextSummary
    \/ ImageServer
    \/ StreamHandler
    \/ DeleteItem

SpecPipeline == InitPipeline /\ [][NextPipeline]_vars

\* no job yet; the rules handler with or without DYNAMO_TABLE_NAME and
\* TEXT_LLM_QUEUE_URL, which it reads with os.environ.get, and given the
\* job's message alone or in a batch
InitRules ==
    /\ pc = "rules"
    /\ EngineIdle
    /\ NoJob
    /\ env \in [DYNAMO_TABLE_NAME : BOOLEAN, TEXT_LLM_QUEUE_URL : BOOLEAN,
                 table_name : {TRUE}]
    /\ event \in Events

\* the request, then the runs of the rules handler on the job's message
NextRules == EntryPoint \/ RulesHandler

SpecRules == InitRules /\ [][NextRules]_vars

\* the largest max_retries a caller passes
MaxRetriesArg == 3

\* what one http.request can come to, for the function on its own: a
\* response of any status, a urllib3 TimeoutError, another exception
HttpOutcomes ==
    {[kind |-> "response", status |-> st] : st \in {199, 200, 204, 299, 300, 500}}
    \cup {[kind |-> k, status |-> 0] : k \in {"TimeoutError", "Exception"}}

\* response.status >= 200 and response.status < 300
Is2xx(r) == r.kind = "response" /\ r.status >= 200 /\ r.status < 300

\* the loop catches a timeout and nothing else
CaughtTimeoutOnly(kind) == kind = "TimeoutError"

\* except urllib3.exceptions.TimeoutError: ... except Exception as e: ...
Caught(kind) == kind \in {"TimeoutError", "Exception"}

\* call_webhook_with_retry(webhook_url, payload, max_retries) is called:
\* range(max_retries) is set up, and the function returns False at once
\* if it is empty
WebhookCall ==
    /\ retry.state = "idle"
    /\ \E n \in (0..MaxRetriesArg) \cup {max_retries} :
          retry' = [state       |-> IF n = 0 THEN "returned" ELSE "loop",
                    max_retries |-> n,
                    attempt     |-> 0,
                    log         |-> <<>>,
                    result      |-> IF n = 0 THEN "False" ELSE "None"]
    /\ UNCHANGED <<pc, engine, job_item, records, handled, queues, received,
                   s3_results, text_server, webhook, env, response, event,
                   moderated>>

\* one pass of the loop: the request and what it comes to; after a 2xx the
\* return True; after anything else that is caught the back-off sleep and
\* the next pass or, after the last pass, the return False
WebhookAttempt ==
    /\ retry.state = "loop"
    /\ \E r \in HttpOutcomes :
        LET escapes == r.kind # "response" /\ ~Caught(r.kind)
            last    == retry.attempt + 1 >= retry.max_retries
        IN retry' = [retry EXCEPT
                       !.log     = Append(@, r),
                       !.attempt = IF Is2xx(r) \/ escapes THEN @ ELSE @ + 1,
                       !.state   = IF Is2xx(r) THEN "returned"
                                   ELSE IF escapes THEN "raised"
                                   ELSE IF last THEN "returned" ELSE "loop",
                       !.result  = IF Is2xx(r) THEN "True"
                                   ELSE IF ~escapes /\ last THEN "False"
                                   ELSE "None"]
    /\ UNCHANGED <<pc, engine, job_item, records, handled, queues, received,
                   s3_results, text_server, webhook, env, response, event,
                   moderated>>

\* no call yet
InitWebhook ==
    /\ pc = "webhook"
    /\ EngineIdle
    /\ NoPipeline

\* one call of call_webhook_with_retry, pass by pass
NextWebhook == WebhookCall \/ WebhookAttempt

SpecWebhook == InitWebhook /\ [][NextWebhook]_vars

----------------------------------------------------------------------------
(* What the claims are stated with                                         *)

\* the character class [A-Za-z0-9-] of the specification
WordForming == LowerLetters \cup UpperLetters \cup Digits \cup {"-"}

\* does k occur in s at the 0-based offset p
OccursAt(k, s, p) ==
    /\ p >= 0
    /\ p + Len(k) <= Len(s)
    /\ \A i \in 1..Len(k) : s[p + i] = k[i]

\* the occurrence of k at offset p of s has no word-forming neighbour
Isolated(k, s, p) ==
    /\ p > 0 => s[p] \notin WordForming
    /\ p + Len(k) < Len(s) => s[p + Len(k) + 1] \notin WordForming

Offsets(s) == 0..(Len(s) - 1)

\* the entries of the dictionary the matcher was built from
Entries == (DOMAIN single_words) \cup (DOMAIN phrases)

\* how many hits of the last call report keyword k
HitsOf(k) ==
    Cardinality({i \in 1..Len(found_violations) : found_violations[i].keyword = k})

\* the last call of find_violations returned
Returned == pc = "found" /\ raised = "None"

----------------------------------------------------------------------------
(* Claims about KeywordMatcher, checked under Spec                         *)

\* C1: find_violations reports a single-word entry at an occurrence only if
\* the character before the occurrence (if any) and the character after it
\* (if any) are both outside [A-Za-z0-9-]: every recorded (keyword, start) of
\* a single word is such an occurrence in the normalized text, and a single
\* word has no more hits than it has such occurrences.  With the entry "ass":
\* no hit in "class" or "assassin", one hit in "you ass" and in "ass".
C1_SingleWordBoundary ==
    Returned =>
        LET nt == NormalizeText(text) IN
        /\ \A key \in seen_violations :
              key[1] \in DOMAIN single_words =>
                  OccursAt(key[1], nt, key[2]) /\ Isolated(key[1], nt, key[2])
        /\ \A k \in DOMAIN single_words :
              HitsOf(k) <= Cardinality({p \in Offsets(nt) :
                                          OccursAt(k, nt, p) /\ Isolated(k, nt, p)})
        /\ keyword_data = ExampleKeywordData =>
              /\ text \in {S_class, S_assassin} => HitsOf(S_ass) = 0
              /\ text \in {S_you_ass, S_ass} => HitsOf(S_ass) = 1

\* a call in which a single word occurs once with a word-forming neighbour,
\* unreported, and once without, reported
C1_Witness ==
    /\ Returned
    /\ LET nt == NormalizeText(text) IN
       \E k \in DOMAIN single_words : \E p, q \in Offsets(nt) :
          /\ OccursAt(k, nt, p) /\ ~Isolated(k, nt, p) /\ <<k, p>> \notin seen_violations
          /\ OccursAt(k, nt, q) /\ Isolated(k, nt, q) /\ <<k, q>> \in seen_violations
          /\ HitsOf(k) = 1

\* the offsets of the normalized text nt at which find_violations is to
\* report entry k: its occurrences, for a single word the isolated ones
Reportable(k, nt) ==
    {p \in Offsets(nt) :
        OccursAt(k, nt, p) /\ (k \in DOMAIN single_words => Isolated(k, nt, p))}

\* C2: find_violations reports every dictionary entry at every position
\* where its normalized text occurs in the normalized input (a single word
\* only where it is isolated), overlapping, nested and repeated occurrences
\* included: each such (keyword, start) is recorded and the keyword has at
\* least as many hits as such positions.
C2_EveryOccurrenceReported ==
    Returned =>
        LET nt == NormalizeText(text) IN
        \A k \in Entries :
            /\ \A p \in Reportable(k, nt) : <<k, p>> \in seen_violations
            /\ HitsOf(k) >= Cardinality(Reportable(k, nt))

\* a call that reports one entry nested inside the occurrence of another and
\* one keyword at two offsets
C2_Witness ==
    /\ Returned
    /\ \E k1, k2 \in Entries : \E p1, p2, p3 \in Offsets(text) :
          /\ Len(k1) < Len(k2)
          /\ p2 <= p1 /\ p1 + Len(k1) <= p2 + Len(k2)
          /\ p3 # p1
          /\ {<<k1, p1>>, <<k2, p2>>, <<k1, p3>>} \subseteq seen_violations
          /\ HitsOf(k1) >= 2 /\ HitsOf(k2) >= 1

\* C3: a phrase entry (normalized keyword containing a space) is reported
\* wherever its text occurs in the normalized input, whatever characters are
\* adjacent to the occurrence.  With the entry "go away now": one hit in
\* "please go away now please" and in "please,go away now!".
C3_PhraseNoBoundary ==
    Returned =>
        LET nt == NormalizeText(text) IN
        /\ \A k \in DOMAIN phrases :
              LET occ == {p \in Offsets(nt) : OccursAt(k, nt, p)} IN
              /\ \A p \in occ : <<k, p>> \in seen_violations
              /\ HitsOf(k) >= Cardinality(occ)
        /\ (keyword_data = ExampleKeywordData /\ text \in {S_please, S_please_punct})
              => HitsOf(S_go_away_now) = 1

\* a call that reports a phrase whose occurrence has a word-forming neighbour
C3_Witness ==
    /\ Returned
    /\ LET nt == NormalizeText(text) IN
       \E k \in DOMAIN phrases : \E p \in Offsets(nt) :
          /\ HasSpace(k)
          /\ OccursAt(k, nt, p) /\ ~Isolated(k, nt, p)
          /\ <<k, p>> \in seen_violations
          /\ HitsOf(k) >= 1

\* character c of the input reads as character d of an entry once lowercased
\* and with U+2011 replaced by "-"
Folds(c, d) == (c # NBHYPHEN /\ LowerChar(c) = d) \/ (c = NBHYPHEN /\ d = "-")

\* entry k is spelled at offset p of the raw input t, up to letter case and
\* the kind of hyphen
SpelledAt(k, t, p) ==
    /\ p + Len(k) <= Len(t)
    /\ \A i \in 1..Len(k) : Folds(t[p + i], k[i])

\* the raw neighbours of that spelling are neither word-forming nor U+2011
RawIsolated(k, t, p) ==
    /\ p > 0 => t[p] \notin WordForming \cup {NBHYPHEN}
    /\ p + Len(k) < Len(t) => t[p + Len(k) + 1] \notin WordForming \cup {NBHYPHEN}

\* C4: find_violations matches against the input lowercased and with every
\* U+2011 replaced by "-": an entry spelled in the input in another letter
\* case or with U+2011 for "-" is reported there (a single word when its
\* neighbours are not word-forming).  The entry "self-harm" is reported in
\* "Self(U+2011)Harm" and in "SELF-HARM".
C4_NormalizedInput ==
    Returned =>
        /\ \A k \in Entries : \A p \in Offsets(text) :
              (SpelledAt(k, text, p) /\ (k \in DOMAIN single_words => RawIsolated(k, text, p)))
                  => (<<k, p>> \in seen_violations /\ HitsOf(k) >= 1)
        /\ (keyword_data = ExampleKeywordData /\ text \in {S_Self_Harm_nb, S_SELF_HARM})
              => HitsOf(S_self_harm) = 1

\* a call that reports an entry the input spells with an upper-case letter
\* and with U+2011
C4_Witness ==
    /\ Returned
    /\ \E k \in Entries : \E p \in Offsets(text) :
          /\ SpelledAt(k, text, p)
          /\ \E i \in 1..Len(k) : text[p + i] = NBHYPHEN
          /\ \E i \in 1..Len(k) : text[p + i] \in UpperLetters
          /\ <<k, p>> \in seen_violations
          /\ HitsOf(k) = 1

\* C5: no result of find_violations holds two hits for one (keyword, start
\* position): the hits are as many as the distinct (keyword, start) pairs
\* recorded, keyword by keyword.
C5_OneHitPerKeywordAndStart ==
    Returned =>
        /\ Len(found_violations) = Cardinality(seen_violations)
        /\ \A k \in Entries :
              HitsOf(k) = Cardinality({key \in seen_violations : key[1] = k})

\* a call that reports one keyword at two offsets and two keywords at one
\* offset
C5_Witness ==
    /\ Returned
    /\ \E k1, k2 \in Entries : \E p, q \in Offsets(text) :
          /\ k1 # k2 /\ p # q
          /\ {<<k1, p>>, <<k1, q>>, <<k2, p>>} \subseteq seen_violations
          /\ HitsOf(k1) = 2
          /\ Len(found_violations) = 3

----------------------------------------------------------------------------
(* Claims about the report, checked under SpecEngine                       *)

\* process_transcript or lambda_handler built a report
Reported == pc = "reported" /\ raised = PyNone

\* the violation sequence of the report
RViolations ==
    IF "violations" \in DOMAIN report THEN report.violations ELSE report.flags

\* the abbreviated violation list of a category_report entry
CategoryList(entry) ==
    IF "violations" \in DOMAIN entry THEN entry.violations ELSE entry.flags

Range(q) == {q[i] : i \in DOMAIN q}

\* how many violations of the report carry severity sev
NumWithSeverity(sev) ==
    Cardinality({j \in DOMAIN RViolations : RViolations[j].severity = sev})

\* C6: with a dictionary of zero entries, building the matcher and calling
\* find_violations succeeds and returns an empty result for every text, and
\* the report for any transcript has zero violations and a null
\* highest_severity_level; no error is raised.
C6_EmptyDictionaryIsNoError ==
    Entries = {} =>
        /\ pc = "found" => (raised = PyNone /\ found_violations = <<>>)
        /\ pc = "reported" =>
              /\ raised = PyNone
              /\ RViolations = <<>>
              /\ report.highest_severity_level = PyNone

\* C7: compound_severity_score is the sum over the violations of the weight
\* of their severity, LOW 1, MEDIUM 5, HIGH 10 and 1 for any other string;
\* the severities LOW, HIGH, MEDIUM give 16.
C7_CompoundScore ==
    Reported =>
        /\ report.compound_severity_score =
              10 * NumWithSeverity("HIGH") + 5 * NumWithSeverity("MEDIUM")
              + (Len(RViolations) - NumWithSeverity("HIGH") - NumWithSeverity("MEDIUM"))
        /\ [j \in DOMAIN RViolations |-> RViolations[j].severity] = <<"LOW", "HIGH", "MEDIUM">>
              => report.compound_severity_score = 16

\* a report whose violations carry a severity outside LOW, MEDIUM, HIGH
\* beside a MEDIUM or HIGH one
C7_Witness ==
    /\ Reported
    /\ \E j \in DOMAIN RViolations : RViolations[j].severity \notin {"LOW", "MEDIUM", "HIGH"}
    /\ NumWithSeverity("HIGH") + NumWithSeverity("MEDIUM") > 0
    /\ report.compound_severity_score > Len(RViolations)

\* the rank of HIGH > MEDIUM > LOW; 0 for any other string
Rank(sev) ==
    CASE sev = "HIGH" -> 3 [] sev = "MEDIUM" -> 2 [] sev = "LOW" -> 1 [] OTHER -> 0

HitOf(v) == [keyword |-> v.keyword, categories |-> v.categories, severity |-> v.severity]

\* the utterance a violation names (the start times of a transcript's
\* utterances differ)
Origin(v) == CHOOSE u \in DOMAIN utterances : utterances[u].start_time = v.timestamp

\* C9: the report's violation sequence is the concatenation, in utterance
\* order, of each utterance's matcher hits in matcher output order: every
\* violation names an utterance, no violation of a later utterance precedes
\* one of an earlier utterance, and the violations of an utterance are, in
\* order, what find_violations returns for its text.
C9_TranscriptOrder ==
    Reported =>
        /\ \A j \in DOMAIN RViolations :
              \E u \in DOMAIN utterances :
                  /\ utterances[u].start_time = RViolations[j].timestamp
                  /\ utterances[u].speaker = RViolations[j].speaker
                  /\ utterances[u].text = RViolations[j].text
        /\ \A i, j \in DOMAIN RViolations :
              i < j => Origin(RViolations[i]) <= Origin(RViolations[j])
        /\ \A u \in DOMAIN utterances :
              LET mine == SelectSeq(RViolations,
                                    LAMBDA v : v.timestamp = utterances[u].start_time)
              IN [j \in DOMAIN mine |-> HitOf(mine[j])]
                     = FindViolationsCall(automaton, utterances[u].text).violations

\* a report over two utterances that differ, the first with at least two
\* hits and the second with at least one
C9_Witness ==
    /\ Reported
    /\ Len(utterances) = 2
    /\ utterances[1].text # utterances[2].text
    /\ utterances[1].speaker # utterances[2].speaker
    /\ Len(RViolations) >= 3
    /\ Origin(RViolations[1]) = 1 /\ Origin(RViolations[2]) = 1
    /\ Origin(RViolations[Len(RViolations)]) = 2

\* C10: for every category c of category_report, count equals the number of
\* violations carrying c and the length of c's abbreviated violation list,
\* and speakers holds each distinct speaker of those violations exactly
\* once; every category carried by some violation has an entry.
C10_CategoryReport ==
    Reported =>
        LET cr == report.category_report IN
        /\ \A c \in DOMAIN cr :
              LET carrying == {j \in DOMAIN RViolations :
                                  c \in Range(RViolations[j].categories)}
              IN /\ cr[c].count = Cardinality(carrying)
                 /\ cr[c].count = Len(CategoryList(cr[c]))
                 /\ Range(cr[c].speakers) = {RViolations[j].speaker : j \in carrying}
                 /\ Len(cr[c].speakers) = Cardinality(Range(cr[c].speakers))
        /\ \A j \in DOMAIN RViolations :
              Range(RViolations[j].categories) \subseteq DOMAIN cr

\* the data the dictionary holds for entry k
EntryData(k) == IF k \in DOMAIN single_words THEN single_words[k] ELSE phrases[k]

\* C11: every violation carries the speaker and the text of the utterance in
\* which its keyword was found and that utterance's start_time as timestamp
\* (the keyword occurs in that utterance's normalized text), together with
\* the keyword, the categories and the severity of the matched dictionary
\* entry.
C11_ViolationFields ==
    Reported =>
        \A j \in DOMAIN RViolations :
            LET v == RViolations[j] IN
            /\ \E u \in DOMAIN utterances :
                  /\ v.timestamp = utterances[u].start_time
                  /\ v.speaker = utterances[u].speaker
                  /\ v.text = utterances[u].text
                  /\ \E p \in Offsets(v.text) :
                        OccursAt(v.keyword, NormalizeText(utterances[u].text), p)
            /\ v.keyword \in Entries
            /\ v.categories = EntryData(v.keyword).categories
            /\ v.severity = EntryData(v.keyword).severity

\* a report with a violation of the second of two utterances that differ in
\* speaker and text from the first, the first utterance being reported too
\* with another keyword
C11_Witness ==
    /\ Reported
    /\ Len(utterances) = 2
    /\ utterances[1].speaker # utterances[2].speaker
    /\ utterances[1].text # utterances[2].text
    /\ \E i, j \in DOMAIN RViolations :
          /\ RViolations[i].timestamp = utterances[1].start_time
          /\ RViolations[j].timestamp = utterances[2].start_time
          /\ RViolations[j].speaker = utterances[2].speaker
          /\ RViolations[i].keyword # RViolations[j].keyword
          /\ RViolations[i].severity # RViolations[j].severity

\* the field names of the Report
ReportFields ==
    {"total_utterances", "total_violations", "compound_severity_score",
     "highest_severity_level", "violations", "speakers_with_violations",
     "category_report"}

\* C12: the report has exactly the fields total_utterances, total_violations,
\* compound_severity_score, highest_severity_level, violations,
\* speakers_with_violations and category_report, total_violations is the
\* length of violations and total_utterances the number of parsed utterances.
C12_ReportFields ==
    Reported =>
        /\ DOMAIN report = ReportFields
        /\ report.total_violations = Len(report.violations)
        /\ report.total_utterances = Len(utterances)

----------------------------------------------------------------------------
(* Claims about parse_vtt, checked under SpecParser                        *)

\* parse_vtt returned
Parsed == pc = "parsed"

\* the index of the first colon of a line, 0 if it has none
FirstColon(line) ==
    IF \E i \in DOMAIN line : line[i] = ":"
    THEN CHOOSE i \in DOMAIN line : line[i] = ":" /\ \A j \in 1..(i - 1) : line[j] # ":"
    ELSE 0

BeforeColon(line) == SubSeq(line, 1, FirstColon(line) - 1)

AfterColon(line) == SubSeq(line, FirstColon(line) + 1, Len(line))

\* the line has a colon and something but whitespace after the first one
Emitting(line) ==
    /\ FirstColon(line) # 0
    /\ \E i \in DOMAIN line : i > FirstColon(line) /\ line[i] \notin Whitespace

\* the utterance of a caption line of the b-th block
LineUtterance(line, b) ==
    [speaker    |-> Strip(BeforeColon(line)),
     text       |-> Strip(AfterColon(line)),
     start_time |-> StartStamp(b),
     end_time   |-> EndStamp(b)]

\* the block passes the three tests of parse_vtt
Accepted(block) ==
    /\ Len(block) >= 3
    /\ ~Contains(block[1], WEBVTT)
    /\ \E l \in DOMAIN block : block[l] = TimestampLine

\* the utterances that carry the stamps of the b-th block
StampedAt(b) ==
    SelectSeq(utterances,
              LAMBDA u : u.start_time = StartStamp(b) /\ u.end_time = EndStamp(b))

\* the lines of a block after its timestamp line
CaptionLines(block) ==
    LET ts == CHOOSE l \in DOMAIN block :
                  block[l] = TimestampLine /\ \A k \in 1..(l - 1) : block[k] # TimestampLine
    IN SubSeq(block, ts + 1, Len(block))

\* C13: within an accepted caption block, every caption line after the
\* timestamp line is split on its first colon into speaker and text and
\* yields an utterance exactly when the trimmed text is non-empty, later
\* colons staying in the text, and no other line of the block yields one:
\* the utterances of the block are those of its emitting caption lines, in
\* order.
C13_CaptionLines ==
    Parsed =>
        \A b \in DOMAIN document :
            Accepted(document[b]) =>
                LET emitting == SelectSeq(CaptionLines(document[b]), Emitting)
                IN StampedAt(b) = [k \in DOMAIN emitting |-> LineUtterance(emitting[k], b)]

\* every line of the document that has a colon, as an utterance of its block,
\* in document order
Candidates ==
    LET OfBlock(b) ==
            LET lines == [l \in DOMAIN document[b] |-> LineText(document[b][l], b)]
                colon == SelectSeq(lines, LAMBDA line : FirstColon(line) # 0)
            IN [k \in DOMAIN colon |-> LineUtterance(colon[k], b)]
        F[b \in 0..Len(document)] ==
            IF b = 0 THEN <<>> ELSE F[b - 1] \o OfBlock(b)
    IN F[Len(document)]

RECURSIVE IsSubseq(_, _, _, _)
\* a, from its i-th element on, is a subsequence of b from its j-th on
IsSubseq(a, i, b, j) ==
    IF i > Len(a) THEN TRUE
    ELSE IF j > Len(b) THEN FALSE
    ELSE IF a[i] = b[j] THEN IsSubseq(a, i + 1, b, j + 1)
    ELSE IsSubseq(a, i, b, j + 1)

\* C14: parse_vtt returns the utterances in document order, each with the
\* start and end timestamps of its own block: the result is a subsequence of
\* the document's lines taken block by block and line by line, each with its
\* block's stamps.  A header and two caption blocks with distinct speakers
\* give exactly two utterances, in document order.
C14_DocumentOrder ==
    Parsed =>
        /\ IsSubseq(utterances, 1, Candidates, 1)
        /\ document = ExampleDocument =>
              utterances = <<LineUtterance(L_alice_hi, 2), LineUtterance(L_bob_yo, 3)>>

\* a document of two caption blocks, the first giving two utterances and the
\* second one, with the same speaker and text as one of the first
C14_Witness ==
    /\ Parsed
    /\ Len(document) = 2
    /\ Len(utterances) = 3
    /\ utterances[2].start_time = StartStamp(1)
    /\ utterances[3].start_time = StartStamp(2)
    /\ utterances[3].end_time = EndStamp(2)
    /\ utterances[3].text = utterances[2].text
    /\ utterances[1].text # utterances[2].text

\* the block fails one of the three tests of parse_vtt
Skipped(block) ==
    \/ Contains(block[1], WEBVTT)
    \/ Len(block) < 3
    \/ \A l \in DOMAIN block : block[l] # TimestampLine

\* C15: parse_vtt skips a block whose first line contains WEBVTT, that has
\* fewer than 3 lines or in which the timestamp pattern does not match, still
\* parses every other block, and does not raise: the result is, block by
\* block, nothing for a skipped block and what parse_vtt gives for the block
\* alone for any other.
C15_SkippedBlocks ==
    Parsed =>
        /\ raised = PyNone
        /\ LET F[b \in 0..Len(document)] ==
                   IF b = 0 THEN <<>>
                   ELSE F[b - 1] \o (IF Skipped(document[b]) THEN <<>>
                                     ELSE ParseVtt(BlockText(document[b], b)))
           IN utterances = F[Len(document)]

\* a document whose first block has three lines and is skipped and whose
\* second block gives an utterance
C15_Witness ==
    /\ Parsed
    /\ Len(document) = 2
    /\ Len(document[1]) >= 3
    /\ Skipped(document[1])
    /\ ~Skipped(document[2])
    /\ utterances # <<>>
    /\ \A i \in DOMAIN utterances : utterances[i].start_time = StartStamp(2)

----------------------------------------------------------------------------
(* Claims about the dictionary, checked under SpecLoad                     *)

\* the engine was built from the keyword table
Loaded == pc \in {"built", "found", "again"}

\* the row survives the test of _load_keywords
Loadable(row) == row.cleaned_words # <<>>

\* the place in keyword_data of the i-th row of the table
LoadedIndex(i) == Cardinality({j \in 1..i : Loadable(csv_file.rows[j])})

\* the mod_categories cells of the tables that spell a list of strings
ListCells == {"['VIOLENCE']"}

\* C16: a keyword row whose categories field cannot be decoded into a list
\* of strings is still loaded, with an empty category set, and does not make
\* the loading of the dictionary fail.
C16_UndecodableCategories ==
    pc # "csv" =>
        /\ pc # "failed"
        /\ \A i \in DOMAIN csv_file.rows :
              LET row == csv_file.rows[i] IN
              (/\ Loadable(row)
               /\ "mod_categories" \in DOMAIN row
               /\ row.mod_categories \notin ListCells)
                  => /\ keyword_data[LoadedIndex(i)].keyword = row.cleaned_words
                     /\ keyword_data[LoadedIndex(i)].categories = <<>>

SeverityLevels == {"LOW", "MEDIUM", "HIGH"}

Normalized(keyword) == Strip(Lower(keyword))

\* the keyword has a character that is not whitespace
NonBlank(keyword) == \E i \in DOMAIN keyword : keyword[i] \notin Whitespace

\* the last row of the table stored under k
LastCsvRow(k) ==
    LET rows == csv_file.rows
        idx  == {i \in DOMAIN rows :
                    NonBlank(rows[i].cleaned_words) /\ Normalized(rows[i].cleaned_words) = k}
    IN rows[CHOOSE i \in idx : \A j \in idx : j <= i]

LastRow(k) ==
    LET idx == {i \in DOMAIN keyword_data :
                   /\ NonBlank(GetKeyword(keyword_data[i]))
                   /\ Normalized(GetKeyword(keyword_data[i])) = k}
    IN keyword_data[CHOOSE i \in idx : \A j \in idx : j <= i]

\* C18: when several keyword rows have the same normalized text the
\* dictionary holds one entry for it, with the categories and severity of
\* the last of these rows, every hit reports these, and an occurrence in the
\* text yields one hit, not one per row.
C18_LastRowWins ==
    pc \in {"built", "found"} =>
        /\ DOMAIN automaton.words = Entries
        /\ \A k \in Entries :
              /\ EntryData(k).categories = GetCategories(LastRow(k))
              /\ EntryData(k).severity = GetSeverity(LastRow(k))
              /\ automaton.words[k][2] = EntryData(k)
        /\ Returned =>
              /\ \A j \in DOMAIN found_violations :
                    LET h == found_violations[j] IN
                    /\ h.categories = GetCategories(LastRow(h.keyword))
                    /\ h.severity = GetSeverity(LastRow(h.keyword))
              /\ \A k \in Entries :
                    HitsOf(k) <= Cardinality(Reportable(k, NormalizeText(text)))

\* a call with two rows of the same normalized text and different severity
\* and categories, the text holding it once: one hit, with the second row's
\* severity and categories
C18_Witness ==
    /\ Returned
    /\ Len(keyword_data) = 2
    /\ Normalized(GetKeyword(keyword_data[1])) = Normalized(GetKeyword(keyword_data[2]))
    /\ GetSeverity(keyword_data[1]) # GetSeverity(keyword_data[2])
    /\ GetCategories(keyword_data[1]) # GetCategories(keyword_data[2])
    /\ Len(found_violations) = 1
    /\ found_violations[1].severity = GetSeverity(keyword_data[2])
    /\ found_violations[1].categories = GetCategories(keyword_data[2])

\* C19: a keyword row whose keyword is empty or whitespace-only contributes
\* no dictionary entry and every other row is stored under its trimmed,
\* lowercased keyword: the entries are the normalized keywords of the
\* non-blank rows of the table, none is empty, and no hit has an empty
\* keyword.
C19_NoEmptyKeyword ==
    Loaded =>
        /\ Entries = {Normalized(csv_file.rows[i].cleaned_words) :
                         i \in {j \in DOMAIN csv_file.rows :
                                   NonBlank(csv_file.rows[j].cleaned_words)}}
        /\ DOMAIN automaton.words = Entries
        /\ <<>> \notin Entries
        /\ \A j \in DOMAIN found_violations : found_violations[j].keyword # <<>>

\* a call that returns a hit, on a table of a row with a blank or empty
\* keyword and a row whose keyword is stored trimmed and lowercased
C19_Witness ==
    /\ pc = "found" /\ raised = PyNone
    /\ \E i, j \in DOMAIN csv_file.rows :
          /\ ~NonBlank(csv_file.rows[i].cleaned_words)
          /\ NonBlank(csv_file.rows[j].cleaned_words)
          /\ Normalized(csv_file.rows[j].cleaned_words) # csv_file.rows[j].cleaned_words
    /\ Cardinality(Entries) = 1
    /\ found_violations # <<>>

----------------------------------------------------------------------------
(* More claims about the matcher (SpecLoad) and the report (SpecEngine)    *)

\* the end positions, in the normalized text, of the recorded matches of k
EndsOf(k) == {key[2] + Len(k) - 1 : key \in {x \in seen_violations : x[1] = k}}

\* the m-th smallest element of a set of numbers
Smallest(S, m) == CHOOSE x \in S : Cardinality({y \in S : y <= x}) = m

\* the end position of the match of the j-th hit: the hits of one keyword
\* take the recorded end positions of that keyword in increasing order
EndOfHit(j) ==
    LET k == found_violations[j].keyword
        m == Cardinality({i \in 1..j : found_violations[i].keyword = k})
    IN Smallest(EndsOf(k), m)

\* C22: the hits find_violations returns for one text are in non-decreasing
\* order of the end position of their match in the text.
C22_EndPositionOrder ==
    (pc = "found" /\ raised = PyNone) =>
        /\ \A k \in Entries : HitsOf(k) = Cardinality(EndsOf(k))
        /\ \A i, j \in DOMAIN found_violations :
              i < j => EndOfHit(i) <= EndOfHit(j)

\* a call with three hits: a shorter keyword first, then a longer keyword
\* that starts before it and ends later together with the shorter one again
C22_Witness ==
    /\ pc = "found" /\ raised = PyNone
    /\ Len(found_violations) = 3
    /\ EndOfHit(1) < EndOfHit(2)
    /\ EndOfHit(2) = EndOfHit(3)
    /\ Len(found_violations[2].keyword) > Len(found_violations[1].keyword)
    /\ found_violations[3].keyword = found_violations[1].keyword

\* the speakers list of the report
RSpeakers ==
    IF "speakers_with_violations" \in DOMAIN report
    THEN report.speakers_with_violations ELSE report.speakers_with_flags

\* C23: speakers_with_violations contains exactly the distinct speakers that
\* appear in at least one violation of the report, each once.
C23_SpeakersWithViolations ==
    Reported =>
        /\ Range(RSpeakers) = {RViolations[j].speaker : j \in DOMAIN RViolations}
        /\ Len(RSpeakers) = Cardinality(Range(RSpeakers))

\* a report of three violations or more by two speakers, over two
\* utterances, the speaker of the first violation listed second
C23_Witness ==
    /\ Reported
    /\ Len(RViolations) >= 3
    /\ Len(RSpeakers) = 2
    /\ RSpeakers[2] = RViolations[1].speaker
    /\ RSpeakers[1] = RViolations[Len(RViolations)].speaker

----------------------------------------------------------------------------
(* Claims about callers that share one matcher, checked under SpecShared   *)

\* what the call of c would return if it ran alone
Alone(c) == FindViolationsCall(automaton, calls[c].text)

\* C21: find_violations leaves the automaton and the single_words and
\* phrases dictionaries of the matcher as construction made them, so that
\* under any interleaving of calls on one shared matcher each call returns
\* what it would return alone.
C21_SharedMatcher ==
    /\ LET m == KeywordMatcherInit(keyword_data) IN
        /\ single_words = m.single_words
        /\ phrases = m.phrases
        /\ automaton = m.automaton
    /\ \A c \in DOMAIN calls :
          calls[c].state = "returned" =>
              /\ calls[c].acc.violations = Alone(c).violations
              /\ calls[c].raised = Alone(c).raised

\* two calls on different texts have both returned hits, the second caller
\* having entered and returned while the first was inside its loop
C21_Witness ==
    /\ calls # NoCalls
    /\ calls[1].state = "loop" /\ calls[1].i > 1 /\ calls[1].i <= Len(CallItems(1))
    /\ calls[1].acc.violations # <<>>
    /\ calls[2].state = "returned"
    /\ calls[2].acc.violations # <<>>
    /\ calls[2].acc.violations # Alone(1).violations

----------------------------------------------------------------------------
(* Claims about the job pipeline, checked under SpecPipeline               *)

\* the table's writes by one writer, as indexes of records
Writes(by) == {i \in DOMAIN records : records[i].by = by}

\* the records the stream handler finds ready for combination
ReadyRecords == {i \in DOMAIN records : ReadyForCombination(records[i])}

\* C24: for a job whose transcript branch and video branch each set their
\* complete flag, in either order, exactly one of the resulting stream
\* records satisfies the stream handler's ready-for-combination condition;
\* INSERT and REMOVE records and the records of the handler's own update
\* of the combined flag never satisfy it.
C24_ReadyOnce ==
    /\ \A i \in DOMAIN records :
          (records[i].eventName # "MODIFY" \/ records[i].by = "stream")
              => ~ReadyForCombination(records[i])
    /\ (Writes("text_summary") # {} /\ Writes("image") # {})
          => /\ Cardinality(ReadyRecords) <= 1
             /\ Drained => Cardinality(ReadyRecords) = 1

\* the text server has not taken up the message again after the update
\* that set transcript_complete
Undisturbed ==
    \A i \in Writes("text_summary"), j \in Writes("text_safety") \cup Writes("text_summary") :
        j <= i

\* what holds of C24 while no branch is processed again after it set its
\* flag: the later of the two flag-setting updates writes the one ready
\* record
ReadyOnceUndisturbed ==
    (Undisturbed /\ Writes("text_summary") # {} /\ Cardinality(Writes("image")) = 1)
        => /\ Cardinality(ReadyRecords) = 1
           /\ ReadyRecords \subseteq Writes("text_summary") \cup Writes("image")

\* the stream handler has just written its update of the combined flag
MarkedNow ==
    /\ Len(records') = Len(records) + 1
    /\ records'[Len(records')].by = "stream"

\* C25: the stream handler sets combined = true and status = COMPLETE only
\* when the webhook call returned a 2xx response, or when the job has no
\* webhook URL or an invalid one and no HTTP call is made; after a webhook
\* that failed all its retries the job is left as it was, not combined.
C25_CombinedOnlyAfterWebhook ==
    [][ /\ MarkedNow =>
             LET webhook_url == Get(records[handled + 1].NewImage, "webhook_url", "") IN
             /\ job_item'.combined /\ job_item'.status = "COMPLETE"
             /\ \/ webhook'.posts = webhook.posts + 1
                \/ /\ webhook_url = "" \/ ~is_valid_url(webhook_url)
                   /\ webhook' = webhook
        /\ (webhook'.attempts = webhook.attempts + max_retries
                /\ webhook'.posts = webhook.posts)
             => job_item' = job_item /\ records' = records
        /\ (Get(job_item', "combined", FALSE) /\ ~Get(job_item, "combined", FALSE))
             => MarkedNow ]_vars

\* the job is combined after a webhook call that succeeded at a later
\* attempt than the first
C25_Witness ==
    /\ Get(job_item, "combined", FALSE)
    /\ job_item.status = "COMPLETE"
    /\ webhook.posts = 1
    /\ webhook.attempts > 1

\* C26: for one job, across all the stream records delivered to the stream
\* handler, the webhook receives at most one successful POST.
C26_AtMostOnePost == webhook.posts <= 1

\* nothing is in progress and nothing is left in a queue or in the stream
Quiet ==
    /\ handled = Len(records)
    /\ text_server = "poll"
    /\ \A q \in DOMAIN queues : queues[q] = 0

\* C27: every job whose transcript_complete and video_complete flags both
\* become true eventually has combined = true and status = COMPLETE, given
\* that the stream records are delivered: once every record is delivered
\* and no message is left, the complete job is COMPLETE and combined.
C27_CombinedWhenQuiet ==
    (Quiet /\ Get(job_item, "transcript_complete", FALSE)
           /\ Get(job_item, "video_complete", FALSE))
        => (Get(job_item, "combined", FALSE) /\ job_item.status = "COMPLETE")

\* the item has the URL of the result of the kind, and the file is there
Recorded(it, attr, kind) ==
    /\ Get(it, attr, "") = ResultUrl(kind)
    /\ ResultUrl(kind) \in s3_results'

\* C28: in both polling servers a received message is deleted only if
\* process_message returned true for it, that is, only when every result
\* of the LLM was saved to S3 and recorded in DynamoDB; a message whose
\* processing failed at a step is not deleted and stays in its queue.
C28_DeleteOnlyAfterSuccess ==
    [][ /\ queues'.text_llm < queues.text_llm =>
             /\ Len(records') = Len(records) + 1
             /\ records'[Len(records')].by = "text_summary"
             /\ Recorded(job_item', "transcript_llm_safety_result_s3_url", "safety")
             /\ Recorded(job_item', "transcript_llm_summary_result_s3_url", "summary")
        /\ queues'.image < queues.image =>
             /\ Len(records') = Len(records) + 1
             /\ records'[Len(records')].by = "image"
             /\ Recorded(job_item', "video_llm_result_s3_url", "video")
        /\ (/\ \/ received'.text_llm > received.text_llm
                \/ received'.image > received.image
                \/ (text_server = "summary" /\ text_server' = "poll")
             /\ records' = records)
             => queues' = queues ]_vars

\* the text server failed on the message once, got it again and deleted it;
\* the image server deleted its message after the first delivery
C28_Witness ==
    /\ received.text_llm = 2 /\ queues.text_llm = 0
    /\ Cardinality(Writes("text_summary")) = 1
    /\ received.image = 1 /\ queues.image = 0
    /\ Cardinality(Writes("image")) = 1

\* the flags of an item are backed by the recorded URLs
Backed(it) ==
    /\ Get(it, "transcript_complete", FALSE) =>
          /\ Get(it, "transcript_llm_safety_result_s3_url", "") # ""
          /\ Get(it, "transcript_llm_summary_result_s3_url", "") # ""
    /\ Get(it, "video_complete", FALSE) =>
          Get(it, "video_llm_result_s3_url", "") # ""

\* C29: in every state of the job, transcript_complete is true only if the
\* URLs of the LLM safety result and of the LLM summary result are both
\* recorded (the safety update by itself writes transcript_complete =
\* false), and video_complete is true only if the URL of the video result
\* is recorded.
C29_CompleteOnlyWithResults ==
    /\ Backed(job_item)
    /\ \A i \in DOMAIN records : Backed(records[i].NewImage)
    /\ \A i \in Writes("text_safety") : ~records[i].NewImage.transcript_complete

\* both flags are true, after a safety update that found the video
\* complete already
C29_Witness ==
    /\ Get(job_item, "transcript_complete", FALSE)
    /\ Get(job_item, "video_complete", FALSE)
    /\ \E i \in Writes("text_safety") : records[i].NewImage.video_complete

----------------------------------------------------------------------------
(* Claims about the rules handler, checked under SpecRules                 *)

\* a run of the rules handler has put a message on the text-LLM queue
SentNow == queues'.text_llm > queues.text_llm

\* a run of the rules handler ended on a failure of the upload or of the
\* update of the item
FailedBeforeSend ==
    /\ received'.rules > received.rules
    /\ response'.step \in {"upload", "update"}

\* C30: the rules handler sends the job's message to the text-LLM queue
\* only after the rules result was uploaded to S3 and its URL recorded in
\* DynamoDB; if the upload or the update of the record fails, the
\* invocation sends no message.
C30_SendAfterRecord ==
    [][ /\ SentNow =>
             /\ ResultUrl("rules") \in s3_results'
             /\ Get(job_item', "transcript_rules_result_s3_url", "") = ResultUrl("rules")
        /\ FailedBeforeSend => ~SentNow ]_vars

\* C30, amended: the message is sent only after the upload and, where
\* DYNAMO_TABLE_NAME is set, after the URL was recorded; without the
\* variable the handler records nothing and sends all the same.  A run in
\* which the upload or the update fails sends no message.
C30_SendAfterUpload ==
    [][ /\ SentNow =>
             /\ ResultUrl("rules") \in s3_results'
             /\ env.DYNAMO_TABLE_NAME =>
                   Get(job_item', "transcript_rules_result_s3_url", "") = ResultUrl("rules")
        /\ FailedBeforeSend => ~SentNow ]_vars

\* the message is on the text-LLM queue, the result uploaded and recorded,
\* after a first run that failed at the update and sent nothing
C30_Witness ==
    /\ queues.text_llm = 1
    /\ received.rules = 2
    /\ env.DYNAMO_TABLE_NAME
    /\ job_item.transcript_rules_result_s3_url = ResultUrl("rules")
    /\ ResultUrl("rules") \in s3_results
    /\ Get(job_item, "status", "") = "FAILED"

----------------------------------------------------------------------------
(* Claims about the entry point, checked under SpecRules                   *)

\* the entry point has just returned
EntryReturned(status) == response.by = "entry_point" /\ response.status = status

\* the item as put_item wrote it, not yet updated
FreshItem ==
    /\ job_item # NoItem
    /\ job_item.job_id = JobId
    /\ job_item.status = "PROCESSING"
    /\ ~job_item.transcript_complete
    /\ ~job_item.video_complete
    /\ ~job_item.combined

\* C31: when the entry point has returned, a message is on a queue only if
\* the job item was written (status PROCESSING, transcript_complete,
\* video_complete and combined false), the image message only if the rules
\* message, never more than one message of a queue, and the response is
\* 200 only if the item is written and each queue holds its one message.
C31_ItemThenMessages ==
    response.by = "entry_point" =>
        /\ queues.rules + queues.image > 0 => FreshItem
        /\ queues.image > 0 => queues.rules > 0
        /\ queues.rules <= 1 /\ queues.image <= 1 /\ queues.text_llm = 0
        /\ response.status = "200" =>
              FreshItem /\ queues.rules = 1 /\ queues.image = 1

\* the entry point returned 200 with the item written and both messages
\* out, for a request with a webhook_url
C31_Witness ==
    /\ EntryReturned("200")
    /\ FreshItem
    /\ job_item.webhook_url = "https://hook.example/cb"
    /\ queues.rules = 1
    /\ queues.image = 1

\* C32: when the entry point has returned a response other than 200 (400
\* or 500), no job item is written and no message is on a queue.
C32_NothingOnError ==
    (response.by = "entry_point" /\ response.status # "200") =>
        /\ job_item = NoItem
        /\ records = <<>>
        /\ queues.rules = 0
        /\ queues.image = 0

\* what is true of C32: a 400 has written and sent nothing, and a 500 has
\* done so unless put_item had returned
NothingOnEarlyError ==
    (response.by = "entry_point"
       /\ response.step \in {"body", "fields", "validate", "put_item"}) =>
        /\ job_item = NoItem
        /\ records = <<>>
        /\ queues.rules = 0
        /\ queues.image = 0

----------------------------------------------------------------------------
(* Claims about the runs of the rules handler, checked under SpecRules     *)

\* the rules handler has just returned its 200
RulesReturned == response.by = "rules" /\ response.status = "200"

\* C33: when the rules handler has returned successfully from an event of
\* n >= 1 records, the transcript of every one of the n records has been
\* moderated.
C33_EveryRecordModerated ==
    RulesReturned => \A i \in 1..Len(event) : event[i].job_id \in moderated

\* what is true of C33: the first record's transcript is moderated, and
\* no other record's is ever
FirstRecordModerated ==
    /\ RulesReturned => event[1].job_id \in moderated
    /\ moderated \subseteq {event[1].job_id}

\* a run of the rules handler
RulesRan == received'.rules > received.rules

\* the run wrote nothing to the table
WroteNothing == job_item' = job_item /\ records' = records

\* the job's item says FAILED, with the error of the run
FailedRecorded ==
    /\ job_item'.job_id = JobId
    /\ job_item'.status = "FAILED"
    /\ job_item'.error_message = response'.step
    /\ records' # records
    /\ records'[Len(records')].NewImage = job_item'

\* C34: a run of the rules handler that fails after the job_id is known
\* records status FAILED with the error message for the job, unless the
\* recording itself fails, and raises, so that the message stays on the
\* queue; it raises as well when the recording fails; a run that fails
\* before the job_id is known writes nothing.
C34_FailedRecorded ==
    [][ (RulesRan /\ response'.step # "none") =>
          /\ response'.status = "raised"
          /\ queues'.rules = queues.rules
          /\ (response'.step \notin {"message", "job_id"} /\ ~response'.db_error)
                => FailedRecorded
          /\ response'.step \in {"message", "job_id"} => WroteNothing ]_vars

\* C34, amended: the status FAILED is recorded where DYNAMO_TABLE_NAME is
\* set; without the variable a failing run writes nothing at all.  In
\* every case the run raises and the message stays on the queue.
C34_FailedRecordedWithTable ==
    [][ (RulesRan /\ response'.step # "none") =>
          /\ response'.status = "raised"
          /\ queues'.rules = queues.rules
          /\ (/\ response'.step \notin {"message", "job_id"}
              /\ env.DYNAMO_TABLE_NAME
              /\ ~response'.db_error)
                => FailedRecorded
          /\ response'.step \in {"message", "job_id"} => WroteNothing
          /\ ~env.DYNAMO_TABLE_NAME => WroteNothing /\ ~response'.db_error ]_vars

\* the job is FAILED after a run that failed in the processing, and a
\* later run, whose recording failed, has raised all the same
C34_Witness ==
    /\ response.by = "rules"
    /\ response.status = "raised"
    /\ response.db_error
    /\ response.step = "upload"
    /\ received.rules = 2
    /\ queues.rules = 1
    /\ Get(job_item, "status", "") = "FAILED"
    /\ Get(job_item, "error_message", "") = "processing"

----------------------------------------------------------------------------
(* Claims about call_webhook_with_retry, checked under SpecWebhook         *)

\* the attempts of the call that got a 2xx response
Successes == {i \in 1..Len(retry.log) : Is2xx(retry.log[i])}

\* C35: call_webhook_with_retry makes at most max_retries POST attempts;
\* an attempt that got a 2xx response is the last one and the call has
\* returned; a call that has returned has returned True if and only if
\* some attempt got a 2xx response; and no call raises, so that a call
\* whose attempts all failed, raised or timed out returns False.
C35_RetryResult ==
    /\ Len(retry.log) <= retry.max_retries
    /\ \A i \in Successes : i = Len(retry.log) /\ retry.state = "returned"
    /\ retry.state = "returned" =>
          /\ retry.result \in {"True", "False"}
          /\ retry.result = "True" <=> Successes # {}
    /\ retry.state # "raised"

\* a call with the default max_retries that returned True from its third
\* attempt, after a timeout and a 500
C35_Witness ==
    /\ retry.state = "returned"
    /\ retry.result = "True"
    /\ retry.max_retries = max_retries
    /\ Len(retry.log) = 3
    /\ retry.log[1].kind = "TimeoutError"
    /\ retry.log[2].kind = "response" /\ retry.log[2].status = 500
    /\ retry.log[3].kind = "response" /\ retry.log[3].status = 204

\* a call whose attempts all failed has made max_retries of them and
\* returned False
AllFailed ==
    (retry.state = "returned" /\ retry.result = "False") =>
        /\ Len(retry.log) = retry.max_retries
        /\ Successes = {}

\* the call as the stream handler's run takes it, in one step, comes to
\* what the passes come to
RetryAgrees ==
    (retry.state = "returned" /\ retry.max_retries = max_retries) =>
        LET responses == [i \in 1..max_retries |->
                            IF i <= Len(retry.log) THEN retry.log[i]
                            ELSE [kind |-> "TimeoutError", status |-> 0]]
            w         == call_webhook_with_retry(responses)
        IN /\ w.success <=> retry.result = "True"
           /\ w.attempts = Len(retry.log)

====
